---- MODULE Spec2Model ----
(***************************************************************************)
(* A model of the column operations of polars-st (src/src/functions.rs,    *)
(* src/src/expressions.rs): the spatial join (sjoin) and the element-wise  *)
(* column operations built on the broadcasting helpers.                    *)
(*                                                                         *)
(* The geometry engine (GEOS) is external.  An encoded geometry (a row of  *)
(* a Binary column) is modelled by what the engine reports about it: its   *)
(* envelope, and whether evaluating a prepared predicate against it makes  *)
(* the engine raise.                                                        *)
(***************************************************************************)
EXTENDS Integers, Sequences, FiniteSets, TLC

\* Bounds of the model: the longest left / right column of a join.
MaxLeft == 2
MaxRight == 2

-----------------------------------------------------------------------------
(* Rows of a geometry column, as sjoin sees them.                           *)

\* A null row of a BinaryChunked (Option::None).
NullRow == [kind |-> "null", xmin |-> 0, ymin |-> 0, xmax |-> 0, ymax |-> 0, faulty |-> FALSE]

\* Bytes that Geometry::new_from_wkb rejects.
BadRow == [kind |-> "bad", xmin |-> 0, ymin |-> 0, xmax |-> 0, ymax |-> 0, faulty |-> FALSE]

\* A well-formed geometry with the envelope (x0, y0)-(x1, y1).
Rect(x0, y0, x1, y1, f) ==
    [kind |-> "geom", xmin |-> x0, ymin |-> y0, xmax |-> x1, ymax |-> y1, faulty |-> f]

PointA == Rect(0, 0, 0, 0, FALSE)
PointB == Rect(10, 10, 10, 10, FALSE)
BoxC == Rect(-1, -1, 1, 1, FALSE)
\* A geometry on which the engine's prepared predicates raise (an invalid
\* geometry: GEOS throws a TopologyException); its envelope is still defined.
FaultyD == Rect(0, 0, 10, 10, TRUE)

\* The rows a left column / a right column is drawn from.
LeftRows == {NullRow, BadRow, PointA, PointB, BoxC, FaultyD}
RightRows == {NullRow, BadRow, PointA, BoxC}

RECURSIVE SeqsUpTo(_, _)
\* All sequences over S of length at most n.
SeqsUpTo(S, n) ==
    IF n = 0 THEN {<<>>}
    ELSE LET shorter == SeqsUpTo(S, n - 1)
         IN  shorter \cup {Append(s, x) : s \in {t \in shorter : Len(t) = n - 1}, x \in S}

\* SpatialJoinPredicate (the argument of sjoin).
Predicates ==
    {"IntersectsBbox", "Intersects", "Within", "Contains", "Overlaps",
     "Crosses", "Touches", "Covers", "CoveredBy", "ContainsProperly"}

-----------------------------------------------------------------------------
(* The engine: results are [ok |-> TRUE, val |-> v] or [ok |-> FALSE].      *)

Ok(v) == [ok |-> TRUE, val |-> v]
Err == [ok |-> FALSE, val |-> FALSE]

\* Geometry::new_from_wkb on a non-null row.
NewFromWkb(wkb) == IF wkb.kind = "geom" THEN Ok(wkb) ELSE Err

IsPoint(g) == g.xmin = g.xmax /\ g.ymin = g.ymax

\* Closed envelopes share a point: what STRtree::query tests.
EnvIntersects(a, b) ==
    /\ a.xmin <= b.xmax /\ b.xmin <= a.xmax
    /\ a.ymin <= b.ymax /\ b.ymin <= a.ymax

\* b lies in a (closed sets).
GeomCovers(a, b) ==
    /\ a.xmin <= b.xmin /\ b.xmax <= a.xmax
    /\ a.ymin <= b.ymin /\ b.ymax <= a.ymax

\* b lies in the interior of a (the interior of a point is the point).
GeomContainsProperly(a, b) ==
    IF IsPoint(a) THEN IsPoint(b) /\ a.xmin = b.xmin /\ a.ymin = b.ymin
    ELSE /\ a.xmin < b.xmin /\ b.xmax < a.xmax
         /\ a.ymin < b.ymin /\ b.ymax < a.ymax

\* The interiors share a point.
InteriorsMeet(a, b) ==
    CASE IsPoint(a) /\ IsPoint(b) -> a.xmin = b.xmin /\ a.ymin = b.ymin
      [] IsPoint(a) -> GeomContainsProperly(b, a)
      [] IsPoint(b) -> GeomContainsProperly(a, b)
      [] OTHER -> /\ a.xmin < b.xmax /\ b.xmin < a.xmax
                  /\ a.ymin < b.ymax /\ b.ymin < a.ymax

GeomContains(a, b) == GeomCovers(a, b) /\ InteriorsMeet(a, b)

GeomTouches(a, b) == EnvIntersects(a, b) /\ ~InteriorsMeet(a, b)

GeomOverlaps(a, b) ==
    /\ IsPoint(a) = IsPoint(b)
    /\ InteriorsMeet(a, b)
    /\ ~GeomCovers(a, b) /\ ~GeomCovers(b, a)

\* The relation a prepared predicate computes, first operand the prepared one.
Relation(p, a, b) ==
    CASE p = "Intersects" -> EnvIntersects(a, b)
      [] p = "Within" -> GeomContains(b, a)
      [] p = "Contains" -> GeomContains(a, b)
      [] p = "Overlaps" -> GeomOverlaps(a, b)
      [] p = "Crosses" -> FALSE
      [] p = "Touches" -> GeomTouches(a, b)
      [] p = "Covers" -> GeomCovers(a, b)
      [] p = "CoveredBy" -> GeomCovers(b, a)
      [] p = "ContainsProperly" -> GeomContainsProperly(a, b)

\* PreparedGeometry::<p>(prepared, other) -> GResult<bool>.
PreparedPredicate(p, prepared, other) ==
    IF prepared.faulty \/ other.faulty THEN Err
    ELSE Ok(Relation(p, prepared, other))

-----------------------------------------------------------------------------
(* State.                                                                   *)

VARIABLES
    \* sjoin (functions.rs 1314-1365)
    left,                \* the left column
    right,               \* the right column
    predicate,           \* the SpatialJoinPredicate
    pc,                  \* where the call stands
    left_geoms,          \* the parsed left rows (Option<Geometry>)
    spatial_index,       \* the STRtree: items in insertion order
    prepared_geoms,      \* the prepared left rows (Option<PreparedGeometry>)
    right_index,         \* rows of the right column already probed
    left_index_builder,  \* the left_index column being built
    right_index_builder, \* the right_index column being built
    result,              \* what the call returned
    predicate_errors,    \* history: predicate evaluations that returned Err
    prepare_calls,       \* history: calls of to_prepared_geom
    \* one element-wise column operation
    op,                  \* the operation
    in1, in2, in3,       \* its input columns (<<>> when the operation has fewer)
    output_dimension,    \* the kwarg of coordinates (2 for the others)
    epc,                 \* where the evaluation stands
    row,                 \* the next row
    out,                 \* the output rows collected so far
    cache,               \* to_srid's ProjCache: the SRIDs resolved, with their Proj
    eresult,             \* what the operation returned
    calls                \* history: the rows the per-row closure was invoked on

joinVars ==
    <<left, right, predicate, pc, left_geoms, spatial_index, prepared_geoms,
      right_index, left_index_builder, right_index_builder, result,
      predicate_errors, prepare_calls>>

elemVars == <<op, in1, in2, in3, output_dimension, epc, row, out, cache, eresult, calls>>

vars == <<joinVars, elemVars>>

Pending == [tag |-> "pending", left_index |-> <<>>, right_index |-> <<>>]
Failed == [tag |-> "err", left_index |-> <<>>, right_index |-> <<>>]
Returned(l, r) == [tag |-> "ok", left_index |-> l, right_index |-> r]

-----------------------------------------------------------------------------
(* sjoin, step by step.  Rows are numbered from 0 as in the code; the       *)
(* sequences of the model are indexed from 1, so row i is element i + 1.    *)

\* Option::is_none on a row of a column.
IsNone(v) == v.kind = "null"

\* Option<&[u8]>::map(Geometry::new_from_wkb).transpose() on one row.
ParseOption(v) == IF IsNone(v) THEN Ok(NullRow) ELSE NewFromWkb(v)

\* left.into_iter().map(..).collect::<GResult<Vec<_>>>(): Err as soon as one
\* non-null row fails to parse.
CollectLeft(col) ==
    IF \E i \in 1..Len(col) : ~ParseOption(col[i]).ok THEN Err
    ELSE Ok([i \in 1..Len(col) |-> ParseOption(col[i]).val])

\* StrtreeInsert with a fault: the None test is dropped.
StrtreeInsertAll(tree, index, geom) == Append(tree, [item |-> index, env |-> geom])

\* The closure of strtree's try_fold: insert (geom, index) unless geom is None.
StrtreeInsert(tree, index, geom) ==
    IF ~IsNone(geom) THEN Append(tree, [item |-> index, env |-> geom]) ELSE tree

RECURSIVE StrtreeFold(_, _, _)
StrtreeFold(geoms, n, tree) ==
    IF n = Len(geoms) THEN tree
    ELSE StrtreeFold(geoms, n + 1, StrtreeInsert(tree, n, geoms[n + 1]))

\* strtree(&left_geoms).
strtree(geoms) == StrtreeFold(geoms, 0, <<>>)

\* to_prepared_geom on every Some row; None stays None.
PrepareAll(geoms) == geoms

\* NonNullCount with a fault: a None row is prepared as well.
RowCount(col) == Len(col)

\* The Some rows: those to_prepared_geom is called on.
NonNullCount(col) == Cardinality({i \in 1..Len(col) : ~IsNone(col[i])})

\* PredicateFn with a fault: the bbox arm runs the prepared intersects test.
PredicateFnNoBboxArm(p, left_geom, right_geom) ==
    PreparedPredicate(IF p = "IntersectsBbox" THEN "Intersects" ELSE p, left_geom, right_geom)

\* The predicate closure chosen by the match on SpatialJoinPredicate.
PredicateFn(p, left_geom, right_geom) ==
    IF p = "IntersectsBbox" THEN Ok(TRUE)
    ELSE PreparedPredicate(p, left_geom, right_geom)

\* Accepts with a fault: the operands are swapped.
AcceptsSwapped(p, left_geom, right_geom) ==
    LET r == PredicateFn(p, right_geom, left_geom)
    IN  r.ok /\ r.val

\* matches!(predicate(left_geom, &right_geom), Ok(true))
Accepts(p, left_geom, right_geom) ==
    LET r == PredicateFn(p, left_geom, right_geom)
    IN  r.ok /\ r.val

\* The items STRtree::query visits for right_geom: those whose envelope
\* intersects the envelope of right_geom.
QueryItems(tree, right_geom) ==
    {tree[k].item : k \in {j \in 1..Len(tree) : EnvIntersects(tree[j].env, right_geom)}}

\* The orders in which the tree may visit a set of items.
VisitOrders(items) ==
    {s \in [1..Cardinality(items) -> items] : {s[k] : k \in DOMAIN s} = items}

\* AppendPair with a fault: the pair is put in front.
PrependPair(builders, l, r) == <<(<<l>>) \o builders[1], (<<r>>) \o builders[2]>>

\* The builders after appending one accepted pair.
AppendPair(builders, l, r) == <<Append(builders[1], l), Append(builders[2], r)>>

RECURSIVE Visit(_, _, _, _, _, _)
\* The query callback run over the visited items, in visiting order.
Visit(order, k, p, prepared, r, builders) ==
    IF k > Len(order) THEN builders
    ELSE LET l == order[k]
             next == IF Accepts(p, prepared[l + 1], right[r + 1])
                     THEN AppendPair(builders, l, r)
                     ELSE builders
         IN  Visit(order, k + 1, p, prepared, r, next)

\* The visits of one query whose predicate evaluation returned Err.
ErrorsOf(items, p, prepared, r) ==
    {<<l, r>> : l \in {i \in items : ~PredicateFn(p, prepared[i + 1], right[r + 1]).ok}}

\* SkipRight with a fault: a null right row is not skipped.
SkipRightNever(wkb) == FALSE

\* if wkb.is_none() { continue; }
SkipRight(wkb) == IsNone(wkb)

\* No element-wise evaluation is under way.
ElemIdle ==
    /\ op = "none"
    /\ in1 = <<>> /\ in2 = <<>> /\ in3 = <<>>
    /\ output_dimension = 2
    /\ epc = "idle"
    /\ row = 0
    /\ out = <<>>
    /\ cache = {}
    /\ eresult = [tag |-> "pending", col |-> <<>>, msg |-> [text |-> "", srid |-> 0]]
    /\ calls = <<>>

JoinInit ==
    /\ ElemIdle
    /\ left \in SeqsUpTo(LeftRows, MaxLeft)
    /\ right \in SeqsUpTo(RightRows, MaxRight)
    /\ predicate \in Predicates
    /\ pc = "parse_left"
    /\ left_geoms = <<>>
    /\ spatial_index = <<>>
    /\ prepared_geoms = <<>>
    /\ right_index = 0
    /\ left_index_builder = <<>>
    /\ right_index_builder = <<>>
    /\ result = Pending
    /\ predicate_errors = {}
    /\ prepare_calls = 0

\* lines 1331-1334
ParseLeft ==
    /\ pc = "parse_left"
    /\ LET parsed == CollectLeft(left)
       IN  IF parsed.ok
           THEN /\ left_geoms' = parsed.val
                /\ pc' = "index"
                /\ result' = result
           ELSE /\ left_geoms' = left_geoms
                /\ pc' = "done"
                /\ result' = Failed
    /\ UNCHANGED <<left, right, predicate, spatial_index, prepared_geoms, right_index,
                   left_index_builder, right_index_builder, predicate_errors, prepare_calls>>
    /\ UNCHANGED elemVars

\* line 1335
BuildIndex ==
    /\ pc = "index"
    /\ spatial_index' = strtree(left_geoms)
    /\ pc' = "prepare"
    /\ UNCHANGED <<left, right, predicate, left_geoms, prepared_geoms, right_index,
                   left_index_builder, right_index_builder, result, predicate_errors,
                   prepare_calls>>
    /\ UNCHANGED elemVars

\* lines 1336-1347
PrepareLeft ==
    /\ pc = "prepare"
    /\ prepared_geoms' = PrepareAll(left_geoms)
    /\ prepare_calls' = prepare_calls + NonNullCount(left_geoms)
    /\ pc' = "probe"
    /\ UNCHANGED <<left, right, predicate, left_geoms, spatial_index, right_index,
                   left_index_builder, right_index_builder, result, predicate_errors>>
    /\ UNCHANGED elemVars

\* One iteration of the loop of lines 1349-1363.
ProbeRow ==
    /\ pc = "probe"
    /\ right_index < Len(right)
    /\ LET wkb == right[right_index + 1]
       IN  IF SkipRight(wkb)
           THEN /\ right_index' = right_index + 1
                /\ UNCHANGED <<pc, result, left_index_builder, right_index_builder,
                               predicate_errors>>
           ELSE IF ~NewFromWkb(wkb).ok
           THEN /\ pc' = "done"
                /\ result' = Failed
                /\ UNCHANGED <<right_index, left_index_builder, right_index_builder,
                               predicate_errors>>
           ELSE \E order \in VisitOrders(QueryItems(spatial_index, wkb)) :
                  LET builders == Visit(order, 1, predicate, prepared_geoms, right_index,
                                        <<left_index_builder, right_index_builder>>)
                  IN  /\ left_index_builder' = builders[1]
                      /\ right_index_builder' = builders[2]
                      /\ predicate_errors' = predicate_errors \cup
                            ErrorsOf(QueryItems(spatial_index, wkb), predicate,
                                     prepared_geoms, right_index)
                      /\ right_index' = right_index + 1
                      /\ UNCHANGED <<pc, result>>
    /\ UNCHANGED <<left, right, predicate, left_geoms, spatial_index, prepared_geoms,
                   prepare_calls>>
    /\ UNCHANGED elemVars

\* line 1364
Finish ==
    /\ pc = "probe"
    /\ right_index = Len(right)
    /\ pc' = "done"
    /\ result' = Returned(left_index_builder, right_index_builder)
    /\ UNCHANGED <<left, right, predicate, left_geoms, spatial_index, prepared_geoms,
                   right_index, left_index_builder, right_index_builder,
                   predicate_errors, prepare_calls>>
    /\ UNCHANGED elemVars

JoinNext == ParseLeft \/ BuildIndex \/ PrepareLeft \/ ProbeRow \/ Finish

SpecJoin == JoinInit /\ [][JoinNext]_vars

\* StructChunked::from_columns(name, length, fields): a field must have the
\* given length or one row, which is repeated to that length; any other
\* length is a shape error.
FromColumns(length, fields) ==
    IF \E k \in 1..Len(fields) : Len(fields[k]) \notin {length, 1} THEN Err
    ELSE Ok([k \in 1..Len(fields) |->
                IF Len(fields[k]) = length THEN fields[k]
                ELSE [n \in 1..length |-> fields[k][1]]])

\* The sjoin expression after functions::sjoin returned its two columns
\* (expressions.rs 1336-1346): they are made the fields of a struct column
\* of length left.len().
FinishSjoin ==
    /\ pc = "probe"
    /\ right_index = Len(right)
    /\ pc' = "done"
    /\ LET series == FromColumns(Len(left), <<left_index_builder, right_index_builder>>)
       IN  result' = IF series.ok THEN Returned(series.val[1], series.val[2])
                     ELSE [tag |-> "shape", left_index |-> <<>>, right_index |-> <<>>]
    /\ UNCHANGED <<left, right, predicate, left_geoms, spatial_index, prepared_geoms,
                   right_index, left_index_builder, right_index_builder,
                   predicate_errors, prepare_calls>>
    /\ UNCHANGED elemVars

SjoinNext == ParseLeft \/ BuildIndex \/ PrepareLeft \/ ProbeRow \/ FinishSjoin

\* The sjoin expression: functions::sjoin and the struct column made of what
\* it returns.
SpecSjoin == JoinInit /\ [][SjoinNext]_vars

-----------------------------------------------------------------------------
(* Properties of sjoin.                                                     *)

Done == pc = "done"
Succeeded == Done /\ result.tag = "ok"

\* The pairs of a result, as a set.
PairsOf(res) == {<<res.left_index[k], res.right_index[k]>> : k \in 1..Len(res.left_index)}

\* No pair occurs twice in a result.
NoDuplicatePair(res) ==
    \A k, m \in 1..Len(res.left_index) :
        (res.left_index[k] = res.left_index[m] /\ res.right_index[k] = res.right_index[m])
            => k = m

\* The pairs of non-null rows whose envelopes intersect.
BboxPairs ==
    {<<l, r>> \in (0..(Len(left) - 1)) \X (0..(Len(right) - 1)) :
        /\ left[l + 1].kind = "geom" /\ right[r + 1].kind = "geom"
        /\ EnvIntersects(left[l + 1], right[r + 1])}

HasBad(col) == \E i \in 1..Len(col) : col[i].kind = "bad"
AllNull(col) == \A i \in 1..Len(col) : col[i].kind = "null"

\* A malformed left row, a malformed right row that the probe reached, or a
\* predicate evaluation that the engine failed.
FailureSeen ==
    \/ HasBad(left)
    \/ right_index < Len(right) /\ right[right_index + 1].kind = "bad"
    \/ predicate_errors # {}

\* C1: any failure during the join (a left row that does not parse, a right
\* row that does not parse, an engine failure in the predicate) makes the
\* call return an error; a failed evaluation is never a plain non-match.
C1_FailureAborts == (Done /\ FailureSeen) => result = Failed

\* C2: the index holds entries only for non-null left rows, and every pair in
\* the builders names a non-null left row and a non-null right row.
C2_NoNullRows ==
    /\ \A k \in 1..Len(spatial_index) : left[spatial_index[k].item + 1].kind # "null"
    /\ Len(left_index_builder) = Len(right_index_builder)
    /\ \A k \in 1..Len(left_index_builder) :
          /\ left_index_builder[k] \in 0..(Len(left) - 1)
          /\ right_index_builder[k] \in 0..(Len(right) - 1)
          /\ left[left_index_builder[k] + 1].kind # "null"
          /\ right[right_index_builder[k] + 1].kind # "null"

C2_Witness ==
    /\ Succeeded
    /\ Len(result.left_index) > 0
    /\ \E i \in 1..Len(left) : left[i].kind = "null"
    /\ \E j \in 1..Len(right) : right[j].kind = "null"

\* C3: with IntersectsBbox a successful join returns exactly the pairs of
\* non-null rows whose envelopes intersect, each once; points (0,0), (10,10)
\* against the box (-1,-1)-(1,1) give the single pair (0, 0).
C3_BboxExact ==
    (Succeeded /\ predicate = "IntersectsBbox") =>
        /\ PairsOf(result) = BboxPairs
        /\ NoDuplicatePair(result)
        /\ (left = <<PointA, PointB>> /\ right = <<BoxC>>) => result = Returned(<<0>>, <<0>>)

C3_Witness ==
    /\ Succeeded /\ predicate = "IntersectsBbox"
    /\ left = <<PointA, PointB>> /\ right = <<BoxC>>
    /\ result = Returned(<<0>>, <<0>>)

\* C4: with any other predicate P a successful join returns exactly the bbox
\* candidates (l, r) for which P(left l, right r) evaluates to true, left
\* operand first, each once.
C4_PredicateExact ==
    (Succeeded /\ predicate # "IntersectsBbox") =>
        /\ PairsOf(result) =
              {c \in BboxPairs :
                  PreparedPredicate(predicate, left[c[1] + 1], right[c[2] + 1]) = Ok(TRUE)}
        /\ NoDuplicatePair(result)

C4_Witness ==
    /\ Succeeded /\ predicate = "Within"
    /\ left = <<PointA, BoxC>> /\ right = <<PointA>>
    /\ BboxPairs = {<<0, 0>>, <<1, 0>>}
    /\ PairsOf(result) = {<<0, 0>>}

\* C5: the right indices in the builder never decrease: the pairs of one
\* right row all come before the pairs of a later right row.
C5_RightAscending ==
    /\ \A k, m \in 1..Len(right_index_builder) :
          k < m => right_index_builder[k] <= right_index_builder[m]
    /\ \A k \in 1..Len(right_index_builder) : right_index_builder[k] < right_index
    /\ Succeeded =>
          \A k, m \in 1..Len(result.right_index) :
              k < m => result.right_index[k] <= result.right_index[m]

C5_Witness ==
    /\ Succeeded
    /\ \E k, m \in 1..Len(result.right_index) :
          k < m /\ result.right_index[k] < result.right_index[m]

\* C6 as stated: an empty or all-null left or right column gives an empty
\* result, successfully, whatever the other column holds.
C6_DegenerateAlwaysEmpty ==
    (Done /\ (AllNull(left) \/ AllNull(right))) => result = Returned(<<>>, <<>>)

\* C6 amended: an empty or all-null left or right column gives an empty
\* result, successfully, unless a row of either column is malformed; then
\* the join fails.
C6_DegenerateEmptyUnlessMalformed ==
    (Done /\ (AllNull(left) \/ AllNull(right))) =>
        result = IF HasBad(left) \/ HasBad(right) THEN Failed ELSE Returned(<<>>, <<>>)

C6_Witness ==
    /\ Succeeded
    /\ Len(left) > 0 /\ AllNull(left)
    /\ \E j \in 1..Len(right) : right[j].kind = "geom"
    /\ result = Returned(<<>>, <<>>)

-----------------------------------------------------------------------------
(* Element-wise column operations: one closure applied row by row by a      *)
(* helper that handles nulls, broadcasting and the first error.             *)

\* Bounds: the longest column of an operation, of the inputs that vary only
\* in length and nulls, and of to_srid.
MaxRows == 3
MaxShapeLen == 5
MaxSridRows == 2

\* A coordinate: what it was in the input and what was done to it since.
Coord(b) == [base |-> b, steps |-> <<>>]

\* A row of a geometry column: its WKB type code, SRID, emptiness, coordinate.
EGeom(t, s, e, b) == [kind |-> "geom", type |-> t, srid |-> s, empty |-> e, x |-> Coord(b)]
ENull == [kind |-> "null", type |-> 0, srid |-> 0, empty |-> FALSE, x |-> Coord("")]
EBad == [kind |-> "bad", type |-> 0, srid |-> 0, empty |-> FALSE, x |-> Coord("")]
\* Bytes with the header of a point that the engine cannot parse.
EBadBody == [kind |-> "badbody", type |-> 1, srid |-> 0, empty |-> FALSE, x |-> Coord("")]

Pt4326 == EGeom(1, 4326, FALSE, "a")
Pt3857 == EGeom(1, 3857, FALSE, "b")
\* SRID 0: not an EPSG code.
PtNoSrid == EGeom(1, 0, FALSE, "c")
\* An SRID that does not fit the u16 key of the cache.
PtWideSrid == EGeom(1, 900913, FALSE, "d")
EmptyPt == EGeom(1, 3857, TRUE, "")
MultiPt == EGeom(4, 4326, FALSE, "e")
Line4326 == EGeom(2, 4326, FALSE, "f")
Poly4326 == EGeom(3, 4326, FALSE, "g")

\* A row of a numeric column (an SRID, a tolerance).
SNull == [kind |-> "null", v |-> 0]
SVal(n) == [kind |-> "val", v |-> n]

\* The column of n rows all equal to v.
Const(v, n) == [k \in 1..n |-> v]

Ops == {"get_type_id", "coverage_union", "get_coordinates", "set_srid", "distance",
        "snap", "to_srid"}

\* The operations that read the header of the bytes only.
HeaderOps == {"geometry_type", "coordinate_dimension", "srid"}

\* The unary inputs that vary only in length and nulls.
ShapeCols == SeqsUpTo({ENull, Pt4326}, MaxShapeLen)

\* The inputs <<in1, in2, in3>> an operation is run on.
ElemInputs(o) ==
    CASE o = "get_type_id" ->
           {<<a, <<>>, <<>>>> :
               a \in SeqsUpTo({ENull, EBad, Pt4326, MultiPt}, MaxRows) \cup ShapeCols}
      [] o = "coverage_union" ->
           {<<a, <<>>, <<>>>> : a \in SeqsUpTo({ENull, EBad, Pt4326, MultiPt}, MaxRows)}
      [] o = "get_coordinates" ->
           {<<a, <<>>, <<>>>> : a \in SeqsUpTo({ENull, EBad, Pt4326, EmptyPt}, MaxRows)}
      [] o = "set_srid" ->
           {<<a, b, <<>>>> : a \in SeqsUpTo({ENull, EBad, Pt4326}, MaxRows),
                             b \in SeqsUpTo({SNull, SVal(3857)}, MaxRows)}
      [] o = "distance" ->
           {<<a, b, <<>>>> : a \in SeqsUpTo({ENull, EBad, Pt4326}, MaxRows),
                             b \in SeqsUpTo({ENull, Pt3857, EmptyPt}, MaxRows)}
           \cup {<<Const(Pt4326, n), Const(Pt3857, m), <<>>>> : n, m \in 0..MaxShapeLen}
      [] o = "snap" ->
           {<<a, b, c>> : a \in SeqsUpTo({ENull, EBad, Pt4326}, MaxRows),
                          b \in SeqsUpTo({ENull, Pt3857}, MaxRows),
                          c \in SeqsUpTo({SNull, SVal(1)}, MaxRows)}
           \cup {<<Const(Pt4326, n), Const(Pt3857, m), Const(SVal(1), k)>> :
                    n, m, k \in 0..MaxShapeLen}
      [] o = "to_srid" ->
           {<<a, b, <<>>>> :
               a \in SeqsUpTo({ENull, EBad, Pt4326, Pt3857, PtNoSrid, PtWideSrid, EmptyPt},
                              MaxSridRows),
               b \in SeqsUpTo({SNull, SVal(4326), SVal(3857), SVal(0), SVal(900913)},
                              MaxSridRows)}

\* Helper with a fault: distance is run by the helper that does not broadcast.
HelperNoBroadcast(o) ==
    CASE o \in {"get_type_id", "coverage_union"} -> "nonnull"
      [] o = "get_coordinates" -> "iter"
      [] o \in {"set_srid", "to_srid"} -> "broadcast2"
      [] o = "distance" -> "zip2"
      [] o = "snap" -> "broadcast3"

\* The helper each operation hands its closure to: try_apply_nonnull_values_generic,
\* an iterator of Option rows collected into a GResult, or a helper of
\* crate::arity: one that broadcasts and runs the closure on the rows without
\* a null, or one (option1, option2) that hands every row to the closure as
\* an Option.
Helper(o) ==
    CASE o \in {"get_type_id", "coverage_union", "center"} \cup HeaderOps -> "nonnull"
      [] o \in {"get_coordinates", "coordinates"} -> "iter"
      [] o \in {"set_srid", "distance", "to_srid"} -> "broadcast2"
      [] o = "snap" -> "broadcast3"
      [] o = "exterior_ring" -> "option1"
      [] o \in {"get_point", "get_interior_ring", "get_geometry"} -> "option2"

\* How many columns a helper takes.
Arity(h) ==
    CASE h \in {"nonnull", "iter", "option1"} -> 1
      [] h \in {"broadcast2", "zip2", "option2"} -> 2
      [] h = "broadcast3" -> 3

\* Shape rule of the helpers of crate::arity: every length is 1 or the one
\* length of the non-unit inputs; without broadcasting the lengths are equal.
ShapeOk(h, lens) ==
    CASE h \in {"nonnull", "iter", "option1"} -> TRUE
      [] h \in {"broadcast2", "broadcast3", "option2"} ->
           \A j, k \in 1..Arity(h) : lens[j] = lens[k] \/ lens[j] = 1 \/ lens[k] = 1
      [] h = "zip2" -> lens[1] = lens[2]

\* The length of the output.
OutLen(h, lens) ==
    IF \E k \in 1..Arity(h) : lens[k] # 1
    THEN lens[CHOOSE k \in 1..Arity(h) : lens[k] # 1]
    ELSE 1

\* Row i of a column, a column of one row being broadcast.
At(col, i) == IF Len(col) = 1 THEN col[1] ELSE col[i + 1]

-----------------------------------------------------------------------------
(* The closures.  Each returns Ok(value) or Err(message), and the cache.    *)

NoMsg == [text |-> "", srid |-> 0]
RowOk(v, c) == [ok |-> TRUE, val |-> <<v>>, msg |-> NoMsg, cache |-> c]
RowErr(text, n, c) == [ok |-> FALSE, val |-> <<>>, msg |-> [text |-> text, srid |-> n], cache |-> c]

\* The engine did this to the geometry.
Apply(g, steps) == [g EXCEPT !.x.steps = @ \o steps]

\* The WKB type codes coverage_union accepts: MultiPoint, MultiLineString,
\* MultiPolygon, GeometryCollection, MultiCurve, MultiSurface.
CollectionTypes == {4, 5, 6, 7, 11, 12}

get_type_id(wkb, c) ==
    IF wkb.kind \in {"geom", "badbody"} THEN RowOk(wkb.type, c)
    ELSE RowErr("Invalid WKB header", 0, c)

coverage_union(wkb, c) ==
    IF ~NewFromWkb(wkb).ok THEN RowErr("new_from_wkb", 0, c)
    ELSE IF wkb.type \in CollectionTypes THEN RowOk(Apply(wkb, <<"coverage_union">>), c)
    ELSE RowErr("Geometry must be a collection", 0, c)

get_coordinates(wkb, c) ==
    IF ~NewFromWkb(wkb).ok THEN RowErr("new_from_wkb", 0, c)
    ELSE RowOk(IF wkb.empty THEN <<>> ELSE <<wkb.x>>, c)

set_srid(wkb, srid, c) ==
    IF ~NewFromWkb(wkb).ok THEN RowErr("new_from_wkb", 0, c)
    ELSE RowOk([wkb EXCEPT !.srid = srid.v], c)

distance(a, b, c) ==
    IF ~NewFromWkb(a).ok \/ ~NewFromWkb(b).ok THEN RowErr("new_from_wkb", 0, c)
    ELSE RowOk([nan |-> a.empty \/ b.empty, from |-> a.x.base, to |-> b.x.base], c)

snap(a, b, tolerance, c) ==
    IF ~NewFromWkb(a).ok \/ ~NewFromWkb(b).ok THEN RowErr("new_from_wkb", 0, c)
    ELSE RowOk(Apply(a, <<"snap", b.x.base, ToString(tolerance.v)>>), c)

\* Proj::from_epsg_code: the codes the registry knows.
KnownEpsg == {4326, 3857}
FromEpsgCode(srid) == [code |-> srid, latlong |-> srid = 4326]
NoProj == [code |-> 0, latlong |-> FALSE]

\* An entry of the cache: the Proj of an SRID, and how many times
\* Proj::from_epsg_code was run for it.
CacheEntry(srid, lookups) == [srid |-> srid, proj |-> FromEpsgCode(srid), lookups |-> lookups]

\* CacheGet with a fault: a vacant key is served from an entry already there.
CacheGetStale(c, srid) ==
    IF c # {}
    THEN [ok |-> TRUE,
          proj |-> (CHOOSE e \in c : \A f \in c : e.srid <= f.srid).proj,
          cache |-> c]
    ELSE IF srid \in KnownEpsg
    THEN [ok |-> TRUE, proj |-> FromEpsgCode(srid), cache |-> c \cup {CacheEntry(srid, 1)}]
    ELSE [ok |-> FALSE, proj |-> NoProj, cache |-> c]

\* CacheGet with a fault: an occupied key is resolved from the registry again.
CacheGetUncached(c, srid) ==
    IF srid \in KnownEpsg
    THEN LET before == {e \in c : e.srid = srid}
             lookups == IF before = {} THEN 1 ELSE (CHOOSE e \in before : TRUE).lookups + 1
         IN  [ok |-> TRUE, proj |-> FromEpsgCode(srid),
              cache |-> (c \ before) \cup {CacheEntry(srid, lookups)}]
    ELSE [ok |-> FALSE, proj |-> NoProj, cache |-> c]

\* ProjCache::get: the entry of srid, resolved and inserted if vacant; a
\* failed resolution inserts nothing.
CacheGet(c, srid) ==
    IF \E e \in c : e.srid = srid
    THEN [ok |-> TRUE, proj |-> (CHOOSE e \in c : e.srid = srid).proj, cache |-> c]
    ELSE IF srid \in KnownEpsg
    THEN [ok |-> TRUE, proj |-> FromEpsgCode(srid), cache |-> c \cup {CacheEntry(srid, 1)}]
    ELSE [ok |-> FALSE, proj |-> NoProj, cache |-> c]

\* u16::try_from
FitsU16(n) == n >= 0 /\ n <= 65535

\* srid.try_into().map(|srid| cache.get(srid)): Err twice over when the SRID
\* does not fit or does not resolve.
Resolve(c, srid) ==
    IF FitsU16(srid) THEN CacheGet(c, srid)
    ELSE [ok |-> FALSE, proj |-> NoProj, cache |-> c]

\* apply_proj_transform: what happens to each coordinate.
ApplyProjTransform(src, dst, geom) ==
    LET radians == IF src.latlong THEN <<"to_radians">> ELSE <<>>
        moved == radians \o <<"transform", ToString(src.code), ToString(dst.code)>>
    IN  IF dst.latlong THEN Apply(geom, <<"to_degrees">>) ELSE Apply(geom, moved)

\* to_srid with a fault: an empty geometry is transformed like any other.
to_srid_transforms_empty(wkb, dest_srid, c) ==
    IF ~NewFromWkb(wkb).ok THEN RowErr("new_from_wkb", 0, c)
    ELSE IF wkb.srid = dest_srid.v THEN RowOk(wkb, c)
    ELSE LET proj_src == Resolve(c, wkb.srid)
         IN  IF ~proj_src.ok THEN RowErr("Unknown SRID", wkb.srid, proj_src.cache)
             ELSE LET proj_dst == Resolve(proj_src.cache, dest_srid.v)
                  IN  IF ~proj_dst.ok THEN RowErr("Unknown SRID", wkb.srid, proj_dst.cache)
                      ELSE RowOk([ApplyProjTransform(proj_src.proj, proj_dst.proj, wkb)
                                     EXCEPT !.srid = dest_srid.v],
                                 proj_dst.cache)

\* The closure of to_srid; both failures to resolve are reported with
\* srid_err(geom_srid).
to_srid(wkb, dest_srid, c) ==
    IF ~NewFromWkb(wkb).ok THEN RowErr("new_from_wkb", 0, c)
    ELSE IF wkb.srid = dest_srid.v \/ wkb.empty THEN RowOk(wkb, c)
    ELSE LET proj_src == Resolve(c, wkb.srid)
         IN  IF ~proj_src.ok THEN RowErr("Unknown SRID", wkb.srid, proj_src.cache)
             ELSE LET proj_dst == Resolve(proj_src.cache, dest_srid.v)
                  IN  IF ~proj_dst.ok THEN RowErr("Unknown SRID", wkb.srid, proj_dst.cache)
                      ELSE RowOk([ApplyProjTransform(proj_src.proj, proj_dst.proj, wkb)
                                     EXCEPT !.srid = dest_srid.v],
                                 proj_dst.cache)

-----------------------------------------------------------------------------
(* The EWKB header: read_ewkb_header (crate::wkb) and the closures of       *)
(* get_type_id, get_coordinate_dimension and get_srid that call it.         *)

\* Bound: the longest column the header operations are run on.
MaxHdrRows == 2

\* A row of a geometry column as bytes: the first bytes of the input (all of
\* it when it is shorter than nine bytes) and whether what follows the header
\* is a payload the engine reads.
HdrRow(bytes, body) == [kind |-> "bytes", bytes |-> bytes, body |-> body]

\* The four bytes of a 32-bit word whose low 24 bits are lo and whose high
\* byte is hi, as written with byte order flag e (0 big-endian, 1 little).
WordBytes(e, hi, lo) ==
    LET b0 == lo % 256
        b1 == (lo \div 256) % 256
        b2 == (lo \div 65536) % 256
    IN  IF e = 1 THEN <<b0, b1, b2, hi>> ELSE <<hi, b2, b1, b0>>

\* The four bytes of the signed 32-bit integer v (two's complement).
Int32Bytes(e, v) ==
    IF v >= 0 THEN WordBytes(e, v \div 16777216, v % 16777216)
    ELSE LET w == (v + 2147483647) + 1
         IN  WordBytes(e, 128 + (w \div 16777216), w % 16777216)

\* The header a writer emits: byte order flag, type word (type code and the
\* Z, M and SRID flag bits), then the SRID if there is one.  srid is <<>> or
\* <<v>>.
EncodeHeader(e, code, z, m, srid) ==
    LET flags == (IF z THEN 128 ELSE 0) + (IF m THEN 64 ELSE 0)
                 + (IF srid # <<>> THEN 32 ELSE 0)
        word == WordBytes(e, flags + (code \div 16777216), code % 16777216)
    IN  <<e>> \o word \o (IF srid = <<>> THEN <<>> ELSE Int32Bytes(e, srid[1]))

\* The first four bytes of a payload: of the doubles of a point at x = 1.0,
\* and of a count of two.
PointPayload == <<0, 0, 0, 0>>
CountTwoBE == <<0, 0, 0, 2>>

\* The byte rows the header operations are run on.
PointLE == HdrRow(EncodeHeader(1, 1, FALSE, FALSE, <<>>) \o PointPayload, TRUE)
PointSridLE == HdrRow(EncodeHeader(1, 1, FALSE, FALSE, <<4326>>), TRUE)
PointZBE == HdrRow(EncodeHeader(0, 1, TRUE, FALSE, <<-1>>), TRUE)
LineBE == HdrRow(EncodeHeader(0, 2, FALSE, FALSE, <<>>) \o CountTwoBE, TRUE)
CollectionZMBE == HdrRow(EncodeHeader(0, 7, TRUE, TRUE, <<3857>>), TRUE)
PolygonMLE == HdrRow(EncodeHeader(1, 3, FALSE, TRUE, <<0>>), TRUE)
\* Kinds the header names and the engine does not read.
TriangleZLE == HdrRow(EncodeHeader(1, 17, TRUE, FALSE, <<>>) \o PointPayload, FALSE)
\* A type code that is none of the 18.
UnknownLE == HdrRow(EncodeHeader(1, 18, FALSE, FALSE, <<>>) \o PointPayload, FALSE)
UnknownSridBE == HdrRow(EncodeHeader(0, 99, FALSE, TRUE, <<4326>>), FALSE)
\* The ISO code of a point with Z (1001), which is not the extended format.
IsoPointZLE == HdrRow(EncodeHeader(1, 1001, FALSE, FALSE, <<>>) \o PointPayload, TRUE)
\* Inputs that end inside the header.
ShortWord == HdrRow(<<1, 1, 0>>, FALSE)
ShortSrid == HdrRow(SubSeq(EncodeHeader(1, 1, FALSE, FALSE, <<4326>>), 1, 7), FALSE)
\* A header followed by a payload the engine rejects.
PointBadBody == HdrRow(EncodeHeader(1, 1, FALSE, FALSE, <<3857>>), FALSE)

HdrRows ==
    {ENull, PointLE, PointSridLE, PointZBE, LineBE, CollectionZMBE, PolygonMLE,
     TriangleZLE, UnknownLE, UnknownSridBE, IsoPointZLE, ShortWord, ShortSrid,
     PointBadBody}

\* IsLittle with a fault: every input is read as little-endian.
IsLittleAlways(bytes) == TRUE

\* The byte order flag: 1 is little-endian, 0 big-endian.
IsLittle(bytes) == bytes[1] = 1

\* The four bytes at offsets at..at+3, least significant first.
WordAt(bytes, at) ==
    IF IsLittle(bytes)
    THEN <<bytes[at + 1], bytes[at + 2], bytes[at + 3], bytes[at + 4]>>
    ELSE <<bytes[at + 4], bytes[at + 3], bytes[at + 2], bytes[at + 1]>>

\* FlagZ with a fault: the lowest bit of the byte is tested.
FlagZLowBit(w) == w[4] % 2 = 1

\* Bits 0x80000000, 0x40000000 and 0x20000000 of the word: the top three bits
\* of its most significant byte.
FlagZ(w) == w[4] \div 128 = 1
FlagM(w) == (w[4] \div 64) % 2 = 1
FlagSrid(w) == (w[4] \div 32) % 2 = 1

\* The type code: the word without its three flag bits.
TypeCode(w) == w[1] + 256 * w[2] + 65536 * w[3] + 16777216 * (w[4] % 32)

\* The word as a signed 32-bit integer.
ReadI32(w) ==
    LET low == w[1] + 256 * w[2] + 65536 * w[3] + 16777216 * (w[4] % 128)
    IN  IF w[4] >= 128 THEN (low - 2147483647) - 1 ELSE low

\* The 18 codes of WKBGeometryType: Unknown, Point, ..., Triangle.
KnownCodes == 0..17

NoHeader == [base_type |-> 0, has_z |-> FALSE, has_m |-> FALSE, srid |-> <<>>, offset |-> 0]

\* HeaderSrid with a fault: bytes 5..8 are read whatever the flag says.
HeaderSridUnflagged(bytes) ==
    IF Len(bytes) >= 9 THEN <<ReadI32(WordAt(bytes, 5))>> ELSE <<>>

\* The SRID field: absent unless the flag is set, else the signed integer at
\* offsets 5..8.
HeaderSrid(bytes) ==
    IF FlagSrid(WordAt(bytes, 1)) THEN <<ReadI32(WordAt(bytes, 5))>> ELSE <<>>

\* The least number of bytes the header of this input takes.
HeaderSize(bytes) ==
    IF Len(bytes) >= 5 /\ FlagSrid(WordAt(bytes, 1)) THEN 9 ELSE 5

\* read_ewkb_header: the header and the offset of the payload, or an error
\* when the input ends inside the header or the type code is not known.
read_ewkb_header(bytes) ==
    IF Len(bytes) < HeaderSize(bytes) THEN [ok |-> FALSE, val |-> NoHeader]
    ELSE IF TypeCode(WordAt(bytes, 1)) \notin KnownCodes THEN [ok |-> FALSE, val |-> NoHeader]
    ELSE [ok |-> TRUE,
          val |-> [base_type |-> TypeCode(WordAt(bytes, 1)),
                   has_z |-> FlagZ(WordAt(bytes, 1)),
                   has_m |-> FlagM(WordAt(bytes, 1)),
                   srid |-> HeaderSrid(bytes),
                   offset |-> HeaderSize(bytes)]]

\* WKBGeometryType::try_from(u32)
TryFromCode(code) == IF code \in KnownCodes THEN Ok(code) ELSE Err

\* The closure of get_type_id on the bytes of a row.
type_id_of(wkb, c) ==
    LET header == read_ewkb_header(wkb.bytes)
    IN  IF ~header.ok THEN RowErr("Invalid WKB header", 0, c)
        ELSE IF ~TryFromCode(header.val.base_type).ok THEN RowErr("Invalid geometry type", 0, c)
        ELSE RowOk(TryFromCode(header.val.base_type).val, c)

\* u32::from(bool)
FromBool(b) == IF b THEN 1 ELSE 0

\* get_coordinate_dimension with a fault: M is not counted.
get_coordinate_dimension_no_m(wkb, c) ==
    LET header == read_ewkb_header(wkb.bytes)
    IN  IF ~header.ok THEN RowErr("Invalid header", 0, c)
        ELSE RowOk(2 + FromBool(header.val.has_z), c)

get_coordinate_dimension(wkb, c) ==
    LET header == read_ewkb_header(wkb.bytes)
    IN  IF ~header.ok THEN RowErr("Invalid header", 0, c)
        ELSE RowOk(2 + FromBool(header.val.has_z) + FromBool(header.val.has_m), c)

\* get_srid with a fault: a header that does not decode gives no SRID
\* instead of an error.
get_srid_lenient(wkb, c) ==
    LET header == read_ewkb_header(wkb.bytes)
    IN  IF ~header.ok THEN RowOk(<<>>, c)
        ELSE RowOk(header.val.srid, c)

get_srid(wkb, c) ==
    LET header == read_ewkb_header(wkb.bytes)
    IN  IF ~header.ok THEN RowErr("Invalid header", 0, c)
        ELSE RowOk(header.val.srid, c)

\* The kinds the engine's reader builds a geometry for: Point to
\* GeometryCollection and the curved kinds, not Curve, Surface,
\* PolyhedralSurface, Tin or Triangle.
EngineCodes == 1..12

NoGeometry == [type |-> 0, has_z |-> FALSE, has_m |-> FALSE, srid |-> 0]

\* Geometry::new_from_wkb on the bytes of a row, and what the geometry then
\* answers to geometry_type, has_z, has_m and get_srid.  The reader takes the
\* kind and the dimension from the low 16 bits of the type word (the ISO
\* ranges 1000, 2000, 3000 mean Z, M, ZM) and Z and M from the flag bits as
\* well; a geometry without an SRID answers 0.
ReadWkb(wkb) ==
    LET bytes == wkb.bytes
        w == WordAt(bytes, 1)
        has_srid == (w[4] % 64) >= 32
        low16 == w[1] + 256 * w[2]
        range == low16 \div 1000
    IN  IF Len(bytes) < 5 \/ ~wkb.body THEN [ok |-> FALSE, val |-> NoGeometry]
        ELSE IF has_srid /\ Len(bytes) < 9 THEN [ok |-> FALSE, val |-> NoGeometry]
        ELSE IF (low16 % 1000) \notin EngineCodes THEN [ok |-> FALSE, val |-> NoGeometry]
        ELSE [ok |-> TRUE,
              val |-> [type |-> low16 % 1000,
                       has_z |-> w[4] >= 128 \/ range \in {1, 3},
                       has_m |-> (w[4] % 128) >= 64 \/ range \in {2, 3},
                       srid |-> IF has_srid THEN ReadI32(WordAt(bytes, 5)) ELSE 0]]

-----------------------------------------------------------------------------
(* Coordinates: get_coords_sequence walks the geometry the engine parsed    *)
(* and get_coordinates reshapes the buffer into tuples of `dimension`.      *)

\* Bound: the longest column coordinates is run on.
MaxCoordRows == 2

\* f64::NAN, among ordinates that are all natural numbers.
NaN == -1

\* A coordinate as the engine holds it; z and m count only where the
\* sequence has them.
Co(x, y, z, m) == [x |-> x, y |-> y, z |-> z, m |-> m]

\* A geometry with a coordinate sequence of its own.
Leaf(type, has_z, has_m, seq) ==
    [kind |-> "geom", type |-> type, has_z |-> has_z, has_m |-> has_m,
     seq |-> seq, parts |-> <<>>]

\* A geometry made of others: the rings of a polygon (the exterior first) or
\* the components of a collection.
Node(type, parts) ==
    [kind |-> "geom", type |-> type, has_z |-> FALSE, has_m |-> FALSE,
     seq |-> <<>>, parts |-> parts]

\* A ring of n coordinates without Z or M, numbered from s.
Ring(type, s, n) == Leaf(type, FALSE, FALSE, [k \in 1..n |-> Co(s + k, s + k + 100, 0, 0)])

CPointEmpty == Leaf("Point", FALSE, FALSE, <<>>)
CPoint == Leaf("Point", FALSE, FALSE, <<Co(1, 2, 0, 0)>>)
CPointZ == Leaf("Point", TRUE, FALSE, <<Co(3, 4, 5, 0)>>)
CLineM == Leaf("LineString", FALSE, TRUE, <<Co(6, 7, 0, 8), Co(9, 10, 0, 11)>>)
CLineZM == Leaf("LineString", TRUE, TRUE, <<Co(12, 13, 14, 15), Co(16, 17, 18, 19)>>)
\* An exterior ring of 5 coordinates and two interior rings of 4.
CPolygon ==
    Node("Polygon", <<Ring("LinearRing", 20, 5), Ring("LinearRing", 30, 4),
                      Ring("LinearRing", 40, 4)>>)
CPolygonEmpty == Node("Polygon", <<>>)
CCurvePolygon ==
    Node("CurvePolygon", <<Ring("CircularString", 50, 3), Ring("CircularString", 60, 3)>>)
CMultiPoint == Node("MultiPoint", <<CPointZ, CPointEmpty, CPoint>>)
CCollectionEmpty == Node("GeometryCollection", <<>>)
\* A collection all of whose components are empty.
CCollectionOfEmpty == Node("GeometryCollection", <<CPointEmpty, CPolygonEmpty>>)
CNested ==
    Node("GeometryCollection",
         <<CLineM,
           Node("GeometryCollection", <<CPolygonEmpty, CPointZ, CCollectionOfEmpty>>),
           Node("MultiPolygon",
                <<Node("Polygon", <<Ring("LinearRing", 70, 4), Ring("LinearRing", 80, 4)>>),
                  CPolygonEmpty>>),
           CPoint>>)

CoordRows ==
    {ENull, EBad, CPointEmpty, CPoint, CPointZ, CLineM, CLineZM, CPolygon,
     CPolygonEmpty, CCurvePolygon, CMultiPoint, CCollectionEmpty, CCollectionOfEmpty,
     CNested}

\* GetCoordinatesKwargs::output_dimension
Dimensions == {2, 3, 4}

LeafTypes == {"Point", "LineString", "LinearRing", "CircularString"}
PolygonTypes == {"Polygon", "CurvePolygon"}
CollectionKinds ==
    {"MultiPoint", "MultiLineString", "MultiCurve", "CompoundCurve", "MultiPolygon",
     "MultiSurface", "GeometryCollection"}

RECURSIVE is_empty(_)
\* Geom::is_empty: no coordinate; a polygon without a shell; a collection
\* without a non-empty component.
is_empty(geom) ==
    IF geom.type \in LeafTypes THEN geom.seq = <<>>
    ELSE IF geom.type \in PolygonTypes THEN geom.parts = <<>> \/ is_empty(geom.parts[1])
    ELSE \A k \in 1..Len(geom.parts) : is_empty(geom.parts[k])

\* Ordinate j of a coordinate copied out with a given stride: x, y, then Z
\* (NaN if the sequence has none), then M (NaN if it has none).
Ordinate(geom, co, j) ==
    CASE j = 1 -> co.x
      [] j = 2 -> co.y
      [] j = 3 -> IF geom.has_z THEN co.z ELSE NaN
      [] j = 4 -> IF geom.has_m THEN co.m ELSE NaN

\* as_buffer with a fault: a missing ordinate is written as 0.
as_buffer_zero_fill(geom, dimension) ==
    [k \in 1..(Len(geom.seq) * dimension) |->
        LET v == Ordinate(geom, geom.seq[((k - 1) \div dimension) + 1], ((k - 1) % dimension) + 1)
        IN  IF v = NaN THEN 0 ELSE v]

\* geom.get_coord_seq()?.as_buffer(Some(dimension)): the coordinates one after
\* the other, each with `dimension` ordinates.
as_buffer(geom, dimension) ==
    [k \in 1..(Len(geom.seq) * dimension) |->
        Ordinate(geom, geom.seq[((k - 1) \div dimension) + 1], ((k - 1) % dimension) + 1)]

\* The rings after the exterior with a fault: the last interior ring first.
InteriorRingsReversed(geom) ==
    [n \in 1..(Len(geom.parts) - 1) |-> geom.parts[Len(geom.parts) + 1 - n]]

\* get_interior_ring_n(n) for n in 0..get_num_interior_rings().
InteriorRings(geom) == [n \in 1..(Len(geom.parts) - 1) |-> geom.parts[n + 1]]

\* The components with a fault: the last component first.
ComponentsReversed(geom) ==
    [n \in 1..Len(geom.parts) |-> geom.parts[Len(geom.parts) + 1 - n]]

\* get_geometry_n(n) for n in 0..get_num_geometries().
Components(geom) == geom.parts

RECURSIVE get_coords_sequence(_, _, _), TryForEach(_, _, _, _)
\* (0..count).try_for_each(|n| get_coords_sequence(&item n, dimension, builder))
TryForEach(items, k, dimension, builder) ==
    IF k > Len(items) THEN builder
    ELSE TryForEach(items, k + 1, dimension,
                    get_coords_sequence(items[k], dimension, builder))

\* get_coords_sequence: the builder after the geometry was appended to it.
get_coords_sequence(geom, dimension, builder) ==
    IF is_empty(geom) THEN builder
    ELSE IF geom.type \in LeafTypes THEN builder \o as_buffer(geom, dimension)
    ELSE IF geom.type \in PolygonTypes
    THEN TryForEach(InteriorRings(geom), 1, dimension,
                    builder \o as_buffer(geom.parts[1], dimension))
    ELSE TryForEach(Components(geom), 1, dimension, builder)

\* ReshapeArray with a fault: a buffer without a value cannot be reshaped.
ReshapeArrayNonEmpty(buf, dimension) ==
    IF Len(buf) = 0 \/ Len(buf) % dimension # 0 THEN Err
    ELSE Ok([k \in 1..(Len(buf) \div dimension) |->
                SubSeq(buf, (k - 1) * dimension + 1, k * dimension)])

\* reshape_array(&[Infer, dimension]): the buffer cut into tuples, or an error
\* when its length is not a multiple of dimension.
ReshapeArray(buf, dimension) ==
    IF Len(buf) % dimension # 0 THEN Err
    ELSE Ok([k \in 1..(Len(buf) \div dimension) |->
                SubSeq(buf, (k - 1) * dimension + 1, k * dimension)])

\* The inner get_coordinates(wkb, dimension) on one row.
get_coordinates_row(wkb, dimension, c) ==
    IF ~NewFromWkb(wkb).ok THEN RowErr("new_from_wkb", 0, c)
    ELSE LET builder == get_coords_sequence(wkb, dimension, <<>>)
             series == ReshapeArray(builder, dimension)
         IN  IF series.ok THEN RowOk(series.val, c)
             ELSE RowErr("Invalid coordinate sequence.", 0, c)

\* The width of the arrays in the column get_coordinates returned: that of
\* its non-null rows; no width when there is none.
ArrayWidths(col, dimension) == IF \E i \in 1..Len(col) : col[i] # <<>> THEN {dimension} ELSE {}

\* strict_cast to List(Array(Float64, 2)): an array of another width cannot
\* be cast.
StrictCast(col, dimension) ==
    IF ArrayWidths(col, dimension) \subseteq {2} THEN Ok(col) ELSE Err

-----------------------------------------------------------------------------
(* The structural accessors (get_exterior_ring, get_point_n,                *)
(* get_interior_ring_n, get_geometry_n) and get_center.                     *)

\* Bound: the longest column an accessor or get_center is run on.
MaxPartRows == 2

AccessorOps == {"exterior_ring", "get_point", "get_interior_ring", "get_geometry"}

\* The geometry rows and the index rows the accessors are run on.
PartRows == {ENull, EBad, CPoint, CPointEmpty, CLineM, CPolygon, CPolygonEmpty, CMultiPoint}
IndexRows == {SNull, SVal(0), SVal(1), SVal(3)}

\* Ok(None): the closure answers with a null row.
RowNull(c) == [ok |-> TRUE, val |-> <<>>, msg |-> NoMsg, cache |-> c]

\* The kinds the engine counts the points of; on any other kind
\* Geom::get_num_points is an error (get_num_points, lines 191-199, asks the
\* engine for these kinds only).
CurveTypes == {"LineString", "LinearRing"}

\* Geom::get_num_points
GetNumPoints(geom) == IF geom.type \in CurveTypes THEN Ok(Len(geom.seq)) ELSE Err

\* Geom::get_num_interior_rings: of a polygon only (get_num_interior_rings,
\* lines 201-209, asks the engine for a Polygon only).
GetNumInteriorRings(geom) ==
    IF geom.type = "Polygon"
    THEN Ok(IF geom.parts = <<>> THEN 0 ELSE Len(geom.parts) - 1)
    ELSE Err

\* Geom::get_num_geometries: the components of a collection; a geometry that
\* is not a collection counts as one, itself.
GetNumGeometries(geom) ==
    IF geom.type \in CollectionKinds THEN Ok(Len(geom.parts)) ELSE Ok(1)

\* Geom::get_exterior_ring of a polygon: an empty ring if it has no shell.
ExteriorRing(geom) ==
    IF geom.parts = <<>> THEN Leaf("LinearRing", FALSE, FALSE, <<>>) ELSE geom.parts[1]

\* Geom::get_point_n of a curve.
PointN(geom, n) == Leaf("Point", geom.has_z, geom.has_m, <<geom.seq[n + 1]>>)

\* Geom::get_geometry_n
GeometryN(geom, n) == IF geom.type \in CollectionKinds THEN geom.parts[n + 1] ELSE geom

get_exterior_ring(wkb, c) ==
    IF IsNone(wkb) THEN RowNull(c)
    ELSE IF ~NewFromWkb(wkb).ok THEN RowErr("new_from_wkb", 0, c)
    ELSE IF wkb.type = "Polygon" THEN RowOk(ExteriorRing(wkb), c)
    ELSE RowNull(c)

get_point_n(wkb, index, c) ==
    IF IsNone(wkb) \/ IsNone(index) THEN RowNull(c)
    ELSE IF ~NewFromWkb(wkb).ok THEN RowErr("new_from_wkb", 0, c)
    ELSE LET num_points == GetNumPoints(wkb)
         IN  IF ~num_points.ok THEN RowErr("get_num_points", 0, c)
             ELSE IF index.v < num_points.val THEN RowOk(PointN(wkb, index.v), c)
             ELSE RowNull(c)

get_interior_ring_n(wkb, index, c) ==
    IF IsNone(wkb) \/ IsNone(index) THEN RowNull(c)
    ELSE IF ~NewFromWkb(wkb).ok THEN RowErr("new_from_wkb", 0, c)
    ELSE LET num_rings == GetNumInteriorRings(wkb)
         IN  IF ~num_rings.ok THEN RowErr("get_num_interior_rings", 0, c)
             ELSE IF index.v < num_rings.val THEN RowOk(InteriorRings(wkb)[index.v + 1], c)
             ELSE RowNull(c)

get_geometry_n(wkb, index, c) ==
    IF IsNone(wkb) \/ IsNone(index) THEN RowNull(c)
    ELSE IF ~NewFromWkb(wkb).ok THEN RowErr("new_from_wkb", 0, c)
    ELSE LET num_geom == GetNumGeometries(wkb)
         IN  IF index.v < num_geom.val THEN RowOk(GeometryN(wkb, index.v), c)
             ELSE RowNull(c)

\* The least and the greatest of a set of ordinates.
MinOf(S) == CHOOSE m \in S : \A n \in S : m <= n
MaxOf(S) == CHOOSE m \in S : \A n \in S : m >= n

\* The x and the y ordinates of a geometry, those of all its coordinates.
XsOf(geom) ==
    LET buf == get_coords_sequence(geom, 2, <<>>)
    IN  {buf[2 * k - 1] : k \in 1..(Len(buf) \div 2)}
YsOf(geom) ==
    LET buf == get_coords_sequence(geom, 2, <<>>)
    IN  {buf[2 * k] : k \in 1..(Len(buf) \div 2)}

\* Geom::get_x_min, get_x_max, get_y_min, get_y_max of a non-empty geometry.
GetXMin(geom) == MinOf(XsOf(geom))
GetXMax(geom) == MaxOf(XsOf(geom))
GetYMin(geom) == MinOf(YsOf(geom))
GetYMax(geom) == MaxOf(YsOf(geom))

\* f64::midpoint(a, b), kept exact as the fraction (a + b) / 2.
Midpoint(a, b) == <<a + b, 2>>

\* Geometry::create_empty_point
CreateEmptyPoint == Leaf("Point", FALSE, FALSE, <<>>)

\* Geometry::create_point of the sequence [[x, y]]
CreatePoint(x, y) == Leaf("Point", FALSE, FALSE, <<Co(x, y, 0, 0)>>)

get_center(wkb, c) ==
    IF ~NewFromWkb(wkb).ok THEN RowErr("new_from_wkb", 0, c)
    ELSE IF is_empty(wkb) THEN RowOk(CreateEmptyPoint, c)
    ELSE LET x == Midpoint(GetXMin(wkb), GetXMax(wkb))
             y == Midpoint(GetXMin(wkb), GetXMax(wkb))
         IN  RowOk(CreatePoint(x, y), c)

\* The closure of operation o on one row of its inputs.
RowFn(o, a, b, t, c) ==
    CASE o = "get_type_id" -> get_type_id(a, c)
      [] o = "coverage_union" -> coverage_union(a, c)
      [] o = "get_coordinates" -> get_coordinates(a, c)
      [] o = "set_srid" -> set_srid(a, b, c)
      [] o = "distance" -> distance(a, b, c)
      [] o = "snap" -> snap(a, b, t, c)
      [] o = "to_srid" -> to_srid(a, b, c)
      [] o = "geometry_type" -> type_id_of(a, c)
      [] o = "coordinate_dimension" -> get_coordinate_dimension(a, c)
      [] o = "srid" -> get_srid(a, c)
      [] o = "coordinates" -> get_coordinates_row(a, output_dimension, c)
      [] o = "exterior_ring" -> get_exterior_ring(a, c)
      [] o = "get_point" -> get_point_n(a, b, c)
      [] o = "get_interior_ring" -> get_interior_ring_n(a, b, c)
      [] o = "get_geometry" -> get_geometry_n(a, b, c)
      [] o = "center" -> get_center(a, c)

-----------------------------------------------------------------------------
(* The helpers, row by row.                                                 *)

\* IterSkips with a fault: the closure is run on a None row as well.
IterSkipsNever(wkb) == FALSE

\* wkb.map(|wkb| ..): a None row stays None, the closure is not run.
IterSkips(wkb) == IsNone(wkb)

\* try_apply_nonnull_values_generic runs the closure on the non-null rows only.
NonnullSkips(wkb) == IsNone(wkb)

\* Null rule of the helpers of crate::arity: a row with a null input is null.
AritySkips(h, a, b, t) ==
    IF Arity(h) = 2 THEN IsNone(a) \/ IsNone(b)
    ELSE IsNone(a) \/ IsNone(b) \/ IsNone(t)

\* Whether the helper leaves the row null without running the closure.
Skips(h, a, b, t) ==
    CASE h = "iter" -> IterSkips(a)
      [] h = "nonnull" -> NonnullSkips(a)
      [] h \in {"option1", "option2"} -> FALSE
      [] OTHER -> AritySkips(h, a, b, t)

\* CollectStep with a fault: a row that fails becomes a null row.
CollectStepLenient(buf, r) ==
    IF r.ok THEN [abort |-> FALSE, buf |-> Append(buf, r.val)]
    ELSE [abort |-> FALSE, buf |-> Append(buf, <<>>)]

\* Collecting the rows into a GResult: the first Err is the result and what
\* was collected is dropped.
CollectStep(buf, r) ==
    IF r.ok THEN [abort |-> FALSE, buf |-> Append(buf, r.val)]
    ELSE [abort |-> TRUE, buf |-> <<>>]

Lens == <<Len(in1), Len(in2), Len(in3)>>

EPending == [tag |-> "pending", col |-> <<>>, msg |-> NoMsg]

\* No join is under way.
JoinIdle ==
    /\ left = <<>> /\ right = <<>>
    /\ predicate = "IntersectsBbox"
    /\ pc = "idle"
    /\ left_geoms = <<>>
    /\ spatial_index = <<>>
    /\ prepared_geoms = <<>>
    /\ right_index = 0
    /\ left_index_builder = <<>>
    /\ right_index_builder = <<>>
    /\ result = Pending
    /\ predicate_errors = {}
    /\ prepare_calls = 0

ElemInit ==
    /\ JoinIdle
    /\ op \in Ops
    /\ \E inputs \in ElemInputs(op) :
          in1 = inputs[1] /\ in2 = inputs[2] /\ in3 = inputs[3]
    /\ output_dimension = 2
    /\ epc = "start"
    /\ row = 0
    /\ out = <<>>
    /\ cache = {}
    /\ eresult = EPending
    /\ calls = <<>>

\* The helper looks at the lengths before any row.
StartEval ==
    /\ epc = "start"
    /\ IF ShapeOk(Helper(op), Lens)
       THEN /\ epc' = "rows"
            /\ eresult' = eresult
       ELSE /\ epc' = "done"
            /\ eresult' = [tag |-> "shape", col |-> <<>>, msg |-> NoMsg]
    /\ UNCHANGED <<op, in1, in2, in3, output_dimension, row, out, cache, calls>>
    /\ UNCHANGED joinVars

\* A row with a null input: the output row is null.
NullRowStep ==
    /\ epc = "rows"
    /\ row < OutLen(Helper(op), Lens)
    /\ Skips(Helper(op), At(in1, row), At(in2, row), At(in3, row))
    /\ out' = Append(out, <<>>)
    /\ row' = row + 1
    /\ UNCHANGED <<op, in1, in2, in3, output_dimension, epc, cache, eresult, calls>>
    /\ UNCHANGED joinVars

\* A row without a null input: the closure runs.
EvalRow ==
    /\ epc = "rows"
    /\ row < OutLen(Helper(op), Lens)
    /\ ~Skips(Helper(op), At(in1, row), At(in2, row), At(in3, row))
    /\ LET r == RowFn(op, At(in1, row), At(in2, row), At(in3, row), cache)
           step == CollectStep(out, r)
       IN  /\ calls' = Append(calls, row)
           /\ cache' = r.cache
           /\ out' = step.buf
           /\ IF step.abort
              THEN /\ epc' = "done"
                   /\ eresult' = [tag |-> "err", col |-> <<>>, msg |-> r.msg]
                   /\ row' = row
              ELSE /\ epc' = epc
                   /\ eresult' = eresult
                   /\ row' = row + 1
    /\ UNCHANGED <<op, in1, in2, in3, output_dimension>>
    /\ UNCHANGED joinVars

\* Every row is done: the column is returned.
FinishEval ==
    /\ epc = "rows"
    /\ row = OutLen(Helper(op), Lens)
    /\ epc' = "done"
    /\ eresult' = [tag |-> "ok", col |-> out, msg |-> NoMsg]
    /\ UNCHANGED <<op, in1, in2, in3, output_dimension, row, out, cache, calls>>
    /\ UNCHANGED joinVars

ElemNext == StartEval \/ NullRowStep \/ EvalRow \/ FinishEval

SpecElem == ElemInit /\ [][ElemNext]_vars

\* A header operation is called on a column of byte rows.
HeaderInit ==
    /\ JoinIdle
    /\ op \in HeaderOps
    /\ in1 \in SeqsUpTo(HdrRows, MaxHdrRows)
    /\ in2 = <<>> /\ in3 = <<>>
    /\ output_dimension = 2
    /\ epc = "start"
    /\ row = 0
    /\ out = <<>>
    /\ cache = {}
    /\ eresult = EPending
    /\ calls = <<>>

SpecHeader == HeaderInit /\ [][ElemNext]_vars

\* The coordinates expression is called on a column with an output_dimension.
CoordsInit ==
    /\ JoinIdle
    /\ op = "coordinates"
    /\ in1 \in SeqsUpTo(CoordRows, MaxCoordRows)
    /\ in2 = <<>> /\ in3 = <<>>
    /\ output_dimension \in Dimensions
    /\ epc = "start"
    /\ row = 0
    /\ out = <<>>
    /\ cache = {}
    /\ eresult = EPending
    /\ calls = <<>>

\* functions::get_coordinates has returned its column (kept in out): the
\* expression casts it to List(Array(Float64, 2)) and returns.
FinishCoordinates ==
    /\ epc = "rows"
    /\ op = "coordinates"
    /\ row = OutLen(Helper(op), Lens)
    /\ epc' = "done"
    /\ eresult' = IF StrictCast(out, output_dimension).ok
                  THEN [tag |-> "ok", col |-> StrictCast(out, output_dimension).val, msg |-> NoMsg]
                  ELSE [tag |-> "err", col |-> <<>>, msg |-> [text |-> "strict_cast", srid |-> 0]]
    /\ UNCHANGED <<op, in1, in2, in3, output_dimension, row, out, cache, calls>>
    /\ UNCHANGED joinVars

CoordsNext == StartEval \/ NullRowStep \/ EvalRow \/ FinishCoordinates

SpecCoords == CoordsInit /\ [][CoordsNext]_vars

\* An accessor or get_center is called on a column of geometries, the
\* accessors that take one with a column of indices.
PartsInit ==
    /\ JoinIdle
    /\ op \in AccessorOps \cup {"center"}
    /\ in1 \in SeqsUpTo(PartRows, MaxPartRows)
    /\ in2 \in (IF op \in {"exterior_ring", "center"} THEN {<<>>}
                ELSE SeqsUpTo(IndexRows, MaxPartRows))
    /\ in3 = <<>>
    /\ output_dimension = 2
    /\ epc = "start"
    /\ row = 0
    /\ out = <<>>
    /\ cache = {}
    /\ eresult = EPending
    /\ calls = <<>>

SpecParts == PartsInit /\ [][ElemNext]_vars

-----------------------------------------------------------------------------
(* The aggregations of a column into one geometry: union_all,               *)
(* intersection_all, difference_all, symmetric_difference_all (expressions) *)
(* and collect (functions).                                                 *)

\* Bound: the longest column an aggregation is run on.
MaxAggRows == 3

ReduceOps == {"union_all", "intersection_all", "difference_all", "symmetric_difference_all"}

AggRows == {ENull, EBad, EBadBody, Pt4326, Pt3857, Line4326, Poly4326}

\* Geometry::new_from_wkt("GEOMETRYCOLLECTION EMPTY")
EmptyCollection == EGeom(7, 0, TRUE, "")

\* left.union(&right) and the like: the accumulator after the engine combined
\* it with the next geometry.
SetOperation(o, a, b) == Apply(a, <<o, b.x.base>>)

\* One item of wkb.into_iter().flatten().map(Geometry::new_from_wkb).flatten()
\* folded by try_reduce: the first flatten leaves out a None row, the second
\* an Err of new_from_wkb; the first geometry is the accumulator, each later
\* one is combined with it.
ReduceItem(o, acc, wkb) ==
    IF IsNone(wkb) THEN acc
    ELSE IF ~NewFromWkb(wkb).ok THEN acc
    ELSE IF acc = <<>> THEN <<wkb>>
    ELSE <<SetOperation(o, acc[1], wkb)>>

\* try_reduce has consumed row `row` of the column.
ReduceStep ==
    /\ epc = "rows"
    /\ op \in ReduceOps
    /\ row < Len(in1)
    /\ out' = ReduceItem(op, out, in1[row + 1])
    /\ row' = row + 1
    /\ calls' = IF IsNone(in1[row + 1]) THEN calls ELSE Append(calls, row)
    /\ UNCHANGED <<op, in1, in2, in3, output_dimension, epc, cache, eresult>>
    /\ UNCHANGED joinVars

\* The reduction is over: its geometry, or GEOMETRYCOLLECTION EMPTY if there
\* was none, is the one row of the result.
ReduceFinish ==
    /\ epc = "rows"
    /\ op \in ReduceOps
    /\ row = Len(in1)
    /\ epc' = "done"
    /\ eresult' = [tag |-> "ok",
                   col |-> <<IF out = <<>> THEN <<EmptyCollection>> ELSE out>>,
                   msg |-> NoMsg]
    /\ UNCHANGED <<op, in1, in2, in3, output_dimension, row, out, cache, calls>>
    /\ UNCHANGED joinVars

RECURSIVE TypeIds(_, _)
\* get_type_id(wkb): the type of every row that is not null, a null for a
\* null row, or the first error.
TypeIds(col, k) ==
    IF k > Len(col) THEN Ok(<<>>)
    ELSE IF NonnullSkips(col[k])
    THEN LET rest == TypeIds(col, k + 1)
         IN  IF rest.ok THEN Ok(<<(<<>>)>> \o rest.val) ELSE Err
    ELSE LET r == get_type_id(col[k], {})
         IN  IF ~r.ok THEN Err
             ELSE LET rest == TypeIds(col, k + 1)
                  IN  IF rest.ok THEN Ok(<<r.val>> \o rest.val) ELSE Err

RECURSIVE Unique(_)
\* ChunkedArray::unique: each value of the column once, null being a value
\* like another.  (collect reads only the length and, when it is 1, the value.)
Unique(col) ==
    IF col = <<>> THEN <<>>
    ELSE LET last == col[Len(col)]
             before == Unique(SubSeq(col, 1, Len(col) - 1))
         IN  IF \E k \in 1..Len(before) : before[k] = last THEN before
             ELSE Append(before, last)

\* WKBGeometryType::Point, LineString, Polygon as u32, and the codes of the
\* collections made of them.
WkbPoint == 1
WkbLineString == 2
WkbPolygon == 3
WkbMultiPoint == 4
WkbMultiLineString == 5
WkbMultiPolygon == 6
WkbGeometryCollection == 7

\* The match of collect on the unique types: the type of the collection built.
CollectionFor(geometry_types) ==
    IF Len(geometry_types) = 1
    THEN CASE geometry_types[1] = <<WkbPoint>> -> WkbMultiPoint
           [] geometry_types[1] = <<WkbLineString>> -> WkbMultiLineString
           [] geometry_types[1] = <<WkbPolygon>> -> WkbMultiPolygon
           [] OTHER -> WkbGeometryCollection
    ELSE WkbGeometryCollection

RECURSIVE collect_geometry_vec(_, _)
\* collect_geometry_vec: the rows that are not null, parsed, or the first
\* error of new_from_wkb.
collect_geometry_vec(col, k) ==
    IF k > Len(col) THEN Ok(<<>>)
    ELSE IF IsNone(col[k]) THEN collect_geometry_vec(col, k + 1)
    ELSE IF ~NewFromWkb(col[k]).ok THEN Err
    ELSE LET rest == collect_geometry_vec(col, k + 1)
         IN  IF rest.ok THEN Ok(<<col[k]>> \o rest.val) ELSE Err

\* The type every component of a collection must have, 0 if any will do.
ComponentType(type) ==
    CASE type = WkbMultiPoint -> WkbPoint
      [] type = WkbMultiLineString -> WkbLineString
      [] type = WkbMultiPolygon -> WkbPolygon
      [] OTHER -> 0

\* Geometry::create_multipoint, create_multiline_string, create_multipolygon,
\* create_geometry_collection.
CreateCollection(type, geoms) ==
    IF ComponentType(type) # 0 /\ \E k \in 1..Len(geoms) : geoms[k].type # ComponentType(type)
    THEN Err
    ELSE Ok([kind |-> "geom", type |-> type, srid |-> 0, parts |-> geoms])

\* aggregate_with(wkb, func)
aggregate_with(col, type) ==
    LET geoms == collect_geometry_vec(col, 1)
    IN  IF ~geoms.ok THEN Err ELSE CreateCollection(type, geoms.val)

\* collect, lines 894-896: the unique types of the column.
CollectTypes ==
    /\ epc = "types"
    /\ op = "collect"
    /\ LET types == TypeIds(in1, 1)
       IN  IF types.ok
           THEN /\ out' = Unique(types.val)
                /\ epc' = "build"
                /\ eresult' = eresult
           ELSE /\ out' = out
                /\ epc' = "done"
                /\ eresult' = [tag |-> "err", col |-> <<>>,
                               msg |-> [text |-> "Invalid WKB header", srid |-> 0]]
    /\ UNCHANGED <<op, in1, in2, in3, output_dimension, row, cache, calls>>
    /\ UNCHANGED joinVars

\* collect, lines 897-905: the collection chosen by the match is built.
CollectBuild ==
    /\ epc = "build"
    /\ op = "collect"
    /\ LET geom == aggregate_with(in1, CollectionFor(out))
       IN  eresult' = IF geom.ok THEN [tag |-> "ok", col |-> <<<<geom.val>>>>, msg |-> NoMsg]
                      ELSE [tag |-> "err", col |-> <<>>,
                            msg |-> [text |-> "new_from_wkb", srid |-> 0]]
    /\ epc' = "done"
    /\ UNCHANGED <<op, in1, in2, in3, output_dimension, row, out, cache, calls>>
    /\ UNCHANGED joinVars

\* An aggregation is called on a column.
AggInit ==
    /\ JoinIdle
    /\ op \in ReduceOps \cup {"collect"}
    /\ in1 \in SeqsUpTo(AggRows, MaxAggRows)
    /\ in2 = <<>> /\ in3 = <<>>
    /\ output_dimension = 2
    /\ epc = (IF op = "collect" THEN "types" ELSE "rows")
    /\ row = 0
    /\ out = <<>>
    /\ cache = {}
    /\ eresult = EPending
    /\ calls = <<>>

AggNext == ReduceStep \/ ReduceFinish \/ CollectTypes \/ CollectBuild

SpecAgg == AggInit /\ [][AggNext]_vars

-----------------------------------------------------------------------------
(* from_xy: the expression takes the fields of a struct, casts them and     *)
(* hands them to functions::from_xy.                                        *)

\* Bound: the longest struct column from_xy is run on.
MaxXyRows == 2

\* A field of the struct: a Series, its dtype and its rows.
Field(dtype, rows) == [dtype |-> dtype, rows |-> rows]

\* A row of a String field that is not a number.
SText == [kind |-> "text", v |-> 0]

\* The dtype of a field that is not of Null type, from its rows.
DtypeOf(rows) ==
    IF \E k \in 1..Len(rows) : rows[k].kind = "text" THEN "String" ELSE "Float64"

\* The structs of n rows: x, y and z fields of equal length, the z field
\* possibly of Null type.
Structs(n) ==
    {<<Field(DtypeOf(x), x), Field(DtypeOf(y), y), z>> :
        x \in [1..n -> {SNull, SVal(1), SVal(2)}],
        y \in [1..n -> {SNull, SVal(3), SText}],
        z \in {Field(DtypeOf(r), r) : r \in [1..n -> {SNull, SVal(5), SText}]}
              \cup {Field("Null", [k \in 1..n |-> SNull])}}

\* strict_cast(&DataType::Float64): the rows as Float64, or an error when a
\* row that is not null cannot be read as a number.
StrictCastFloat64(series) ==
    IF \E k \in 1..Len(series.rows) : series.rows[k].kind = "text" THEN Err
    ELSE Ok(Field("Float64", series.rows))

\* The columns the expression hands to functions::from_xy: x and y are the
\* first two fields cast; z is None when the third field is of Null type and
\* fields[1] cast otherwise.
FromXyArgs(fields) ==
    LET x == StrictCastFloat64(fields[1])
        y == StrictCastFloat64(fields[2])
        z == IF fields[3].dtype = "Null" THEN Ok(<<>>)
             ELSE LET cast == StrictCastFloat64(fields[2])
                  IN  IF cast.ok THEN Ok(<<cast.val.rows>>) ELSE Err
    IN  IF x.ok /\ y.ok /\ z.ok THEN Ok([x |-> x.val.rows, y |-> y.val.rows, z |-> z.val])
        ELSE Err

\* Geometry::create_point(CoordSeq::new_from_vec(&[&[x, y, z]]))
CreatePointZ(x, y, z) == Leaf("Point", TRUE, FALSE, <<Co(x, y, z, 0)>>)

\* The closure of functions::from_xy on row i of its columns.
from_xy(args, i) ==
    IF args.z = <<>> THEN CreatePoint(args.x[i].v, args.y[i].v)
    ELSE CreatePointZ(args.x[i].v, args.y[i].v, args.z[1][i].v)

\* try_binary_elementwise_values / try_ternary_elementwise_values: a row with
\* a null in one of the columns handed over is null.
FromXySkips(args, i) ==
    \/ IsNone(args.x[i])
    \/ IsNone(args.y[i])
    \/ (args.z # <<>> /\ IsNone(args.z[1][i]))

\* expressions.rs 105-115: the fields are taken and cast.
FromXyCast ==
    /\ epc = "start"
    /\ op = "from_xy"
    /\ IF FromXyArgs(<<in1, in2, in3>>).ok
       THEN /\ epc' = "rows"
            /\ eresult' = eresult
       ELSE /\ epc' = "done"
            /\ eresult' = [tag |-> "err", col |-> <<>>, msg |-> [text |-> "strict_cast", srid |-> 0]]
    /\ UNCHANGED <<op, in1, in2, in3, output_dimension, row, out, cache, calls>>
    /\ UNCHANGED joinVars

\* One row of functions::from_xy.
FromXyRow ==
    /\ epc = "rows"
    /\ op = "from_xy"
    /\ row < Len(in1.rows)
    /\ LET args == FromXyArgs(<<in1, in2, in3>>).val
       IN  IF FromXySkips(args, row + 1)
           THEN /\ out' = Append(out, <<>>)
                /\ calls' = calls
           ELSE /\ out' = Append(out, <<from_xy(args, row + 1)>>)
                /\ calls' = Append(calls, row)
    /\ row' = row + 1
    /\ UNCHANGED <<op, in1, in2, in3, output_dimension, epc, cache, eresult>>
    /\ UNCHANGED joinVars

\* Every row is done: the column of points is returned.
FromXyFinish ==
    /\ epc = "rows"
    /\ op = "from_xy"
    /\ row = Len(in1.rows)
    /\ epc' = "done"
    /\ eresult' = [tag |-> "ok", col |-> out, msg |-> NoMsg]
    /\ UNCHANGED <<op, in1, in2, in3, output_dimension, row, out, cache, calls>>
    /\ UNCHANGED joinVars

\* from_xy is called on a struct column.
FromXyInit ==
    /\ JoinIdle
    /\ op = "from_xy"
    /\ \E n \in 0..MaxXyRows : \E fields \in Structs(n) :
          in1 = fields[1] /\ in2 = fields[2] /\ in3 = fields[3]
    /\ output_dimension = 2
    /\ epc = "start"
    /\ row = 0
    /\ out = <<>>
    /\ cache = {}
    /\ eresult = EPending
    /\ calls = <<>>

FromXyNext == FromXyCast \/ FromXyRow \/ FromXyFinish

SpecFromXy == FromXyInit /\ [][FromXyNext]_vars

-----------------------------------------------------------------------------
(* Properties of the element-wise operations.                               *)

EDone == epc = "done"
ESucceeded == EDone /\ eresult.tag = "ok"

\* The operations run by a broadcasting helper, and the columns they take.
BroadcastOps == {"set_srid", "distance", "snap", "to_srid"}
NCols == IF op \in {"get_type_id", "coverage_union", "get_coordinates", "coordinates"} \cup HeaderOps THEN 1
         ELSE IF op = "snap" THEN 3 ELSE 2

\* Every length is 1 or one common length.
Compatible == \A j, k \in 1..NCols : Lens[j] = Lens[k] \/ Lens[j] = 1 \/ Lens[k] = 1

\* Two inputs have different lengths, both greater than 1.
TwoLongDiffer == \E j, k \in 1..NCols : Lens[j] > 1 /\ Lens[k] > 1 /\ Lens[j] # Lens[k]

\* The common length L.
CommonLen == IF \E k \in 1..NCols : Lens[k] # 1
             THEN Lens[CHOOSE k \in 1..NCols : Lens[k] # 1]
             ELSE 1

\* Row i of the k-th input, after broadcasting.
InputAt(k, i) ==
    LET col == CASE k = 1 -> in1 [] k = 2 -> in2 [] k = 3 -> in3
    IN  IF Len(col) = 1 THEN col[1] ELSE col[i + 1]

AnyNullAt(i) == \E k \in 1..NCols : InputAt(k, i).kind = "null"

\* What the closure returns on row i alone, with a cache nothing was put in.
RowAlone(i) ==
    RowFn(op, InputAt(1, i),
          IF NCols >= 2 THEN InputAt(2, i) ELSE SNull,
          IF NCols >= 3 THEN InputAt(3, i) ELSE SNull,
          {})

Expected(i) == IF AnyNullAt(i) THEN <<>> ELSE RowAlone(i).val

RowFailsAt(i) == ~AnyNullAt(i) /\ ~RowAlone(i).ok

\* The non-null rows 0..f, in order.
NonNullUpTo(f) == SelectSeq([k \in 1..(f + 1) |-> k - 1], LAMBDA i : ~AnyNullAt(i))

\* C7: a broadcast binary or ternary operation accepts lengths that are each
\* 1 or a common length L and returns L rows (5 and 1 give 5); two different
\* lengths both greater than 1 (5 and 3) give a shape mismatch before the
\* closure is run on any row.
C7_ShapeRule ==
    op \in BroadcastOps =>
        /\ calls # <<>> => Compatible
        /\ (EDone /\ Compatible) =>
              /\ eresult.tag # "shape"
              /\ eresult.tag = "ok" => Len(eresult.col) = CommonLen
        /\ (EDone /\ TwoLongDiffer) => (eresult.tag = "shape" /\ calls = <<>>)
        /\ (EDone /\ op = "distance" /\ in1 = Const(Pt4326, 5) /\ in2 = Const(Pt3857, 1))
              => (eresult.tag = "ok" /\ Len(eresult.col) = 5)

C7_Witness ==
    /\ EDone /\ op = "distance"
    /\ Len(in1) = 5 /\ Len(in2) = 3
    /\ eresult.tag = "shape" /\ calls = <<>>

\* C8: a row with a null input (after broadcasting) gives a null output row
\* and the closure is not run on it; a unary operation on 5 rows with a null
\* at row 2 gives a null exactly at row 2 and runs the closure 4 times.
C8_NullRule ==
    /\ \A k \in 1..Len(calls) : ~AnyNullAt(calls[k])
    /\ epc = "rows" => \A i \in 0..(Len(out) - 1) : AnyNullAt(i) => out[i + 1] = <<>>
    /\ ESucceeded =>
          \A i \in 0..(Len(eresult.col) - 1) : AnyNullAt(i) => eresult.col[i + 1] = <<>>
    /\ (ESucceeded /\ op = "get_type_id"
            /\ in1 = <<Pt4326, Pt4326, ENull, Pt4326, Pt4326>>)
          => /\ eresult.col = <<(<<1>>), (<<1>>), <<>>, (<<1>>), (<<1>>)>>
             /\ calls = <<0, 1, 3, 4>>

C8_Witness ==
    /\ ESucceeded /\ op = "get_type_id"
    /\ in1 = <<Pt4326, Pt4326, ENull, Pt4326, Pt4326>>
    /\ eresult.col[3] = <<>>
    /\ Len(calls) = 4

\* C9: the first row on which the closure returns an error ends the
\* evaluation: that error is the result, no output column is returned (the
\* rows already computed are dropped), and the closure runs on no later row.
C9_FirstErrorAborts ==
    /\ eresult.tag = "err" => (eresult.col = <<>> /\ out = <<>>)
    /\ (EDone /\ eresult.tag # "shape"
            /\ \E i \in 0..(OutLen(Helper(op), Lens) - 1) : RowFailsAt(i))
          => LET first == CHOOSE i \in 0..(OutLen(Helper(op), Lens) - 1) :
                              RowFailsAt(i) /\ \A j \in 0..(i - 1) : ~RowFailsAt(j)
             IN  /\ eresult.tag = "err"
                 /\ eresult.msg = RowAlone(first).msg
                 /\ calls = NonNullUpTo(first)

C9_Witness ==
    /\ EDone /\ op = "coverage_union"
    /\ in1 = <<MultiPt, Pt4326, MultiPt>>
    /\ eresult.tag = "err" /\ eresult.msg.text = "Geometry must be a collection"
    /\ calls = <<0, 1>>

\* C10: in a successful evaluation output row i is what the closure returns
\* on input row i (and the broadcast scalars) alone, in the input's order: it
\* does not depend on other rows nor on what earlier rows left in the cache.
C10_RowLocal ==
    /\ epc = "rows" => \A i \in 0..(Len(out) - 1) : out[i + 1] = Expected(i)
    /\ ESucceeded =>
          /\ Len(eresult.col) = OutLen(Helper(op), Lens)
          /\ \A i \in 0..(Len(eresult.col) - 1) : eresult.col[i + 1] = Expected(i)

C10_Witness ==
    /\ ESucceeded /\ op = "to_srid"
    /\ in1 = <<Pt4326, Pt3857>> /\ in2 = <<SVal(3857), SVal(4326)>>
    /\ Cardinality(cache) = 2
    /\ calls = <<0, 1>>

-----------------------------------------------------------------------------
(* Properties of the header operations.                                     *)

IsPrefix(p, s) == Len(p) <= Len(s) /\ SubSeq(s, 1, Len(p)) = p

\* The type codes that are none of the 18.
UnknownCodes == {18, 99, 1001}

\* The SRID fields a written header may carry.
SridFields == {<<>>, <<0>>, <<4326>>, <<3857>>, <<-1>>}

\* The headers a writer may be asked for: byte order, type code, Z, M, SRID.
WrittenHeaders ==
    {[e |-> e, code |-> code, z |-> z, m |-> m, srid |-> srid] :
        e \in {0, 1}, code \in KnownCodes \cup UnknownCodes,
        z \in BOOLEAN, m \in BOOLEAN, srid \in SridFields}

HeaderBytes(h) == EncodeHeader(h.e, h.code, h.z, h.m, h.srid)

\* The written headers, by their bytes.
ByBytes ==
    [b \in {HeaderBytes(h) : h \in WrittenHeaders} |->
        CHOOSE h \in WrittenHeaders : HeaderBytes(h) = b]

\* The first five bytes of the written headers that carry an SRID.
SridStarts == {SubSeq(HeaderBytes(h), 1, 5) : h \in {g \in WrittenHeaders : g.srid # <<>>}}

\* The byte rows of the input column.
ByteRows == {i \in 0..(Len(in1) - 1) : in1[i + 1].kind = "bytes"}

\* The written headers row i starts with (one at most).
WrittenAs(i) ==
    LET bytes == in1[i + 1].bytes
        starts == {SubSeq(bytes, 1, n) : n \in {k \in {5, 9} : k <= Len(bytes)}}
    IN  {ByBytes[b] : b \in starts \cap DOMAIN ByBytes}

\* Those of a known type code.
KnownAs(i) == {h \in WrittenAs(i) : h.code \in KnownCodes}

HeaderOf(i) == read_ewkb_header(in1[i + 1].bytes)

\* C11: byte 0 is the byte order (0 big-endian, 1 little-endian) in which
\* bytes 1-4 are read as the type word; its type code 0..17 is base_type,
\* has_z is bit 0x80000000 and has_m bit 0x40000000.  So a row that starts
\* with the header written for (byte order, code, z, m) decodes to that code,
\* z and m, and geometry_type returns the code; byte 0x01 followed by the
\* little-endian word 0x00000001 is a Point without Z, M or SRID.
C11_HeaderFields ==
    /\ \A i \in ByteRows : \A h \in KnownAs(i) :
              /\ HeaderOf(i).ok
              /\ HeaderOf(i).val.base_type = h.code
              /\ HeaderOf(i).val.has_z = h.z
              /\ HeaderOf(i).val.has_m = h.m
              /\ (ESucceeded /\ op = "geometry_type") => eresult.col[i + 1] = <<h.code>>
    /\ \A i \in ByteRows :
          IsPrefix(<<1, 1, 0, 0, 0>>, in1[i + 1].bytes) =>
              HeaderOf(i) = [ok |-> TRUE,
                             val |-> [base_type |-> 1, has_z |-> FALSE, has_m |-> FALSE,
                                      srid |-> <<>>, offset |-> 5]]

C11_Witness ==
    /\ ESucceeded /\ op = "geometry_type"
    /\ in1 = <<PointLE, CollectionZMBE>>
    /\ PointLE.bytes = <<1, 1, 0, 0, 0, 0, 0, 0, 0>>
    /\ CollectionZMBE.bytes = <<0, 224, 0, 0, 7, 0, 0, 15, 17>>
    /\ eresult.col = <<(<<1>>), (<<7>>)>>

Malformed(i) ==
    \/ Len(in1[i + 1].bytes) < 5
    \/ Len(in1[i + 1].bytes) < 9 /\ SubSeq(in1[i + 1].bytes, 1, 5) \in SridStarts
    \/ \E h \in WrittenAs(i) : h.code \in UnknownCodes

C14_CoordinateDimension ==
    (ESucceeded /\ op = "coordinate_dimension") =>
        /\ \A i \in ByteRows :
              /\ eresult.col[i + 1] \in {<<2>>, <<3>>, <<4>>}
              /\ \A h \in KnownAs(i) :
                        eresult.col[i + 1] =
                            <<2 + (IF h.z THEN 1 ELSE 0) + (IF h.m THEN 1 ELSE 0)>>
              /\ IsPrefix(<<1, 1, 0, 0, 0>>, in1[i + 1].bytes) => eresult.col[i + 1] = <<2>>
        /\ \A i \in 0..(Len(in1) - 1) : i \notin ByteRows => eresult.col[i + 1] = <<>>

C14_Witness ==
    /\ ESucceeded /\ op = "coordinate_dimension"
    /\ in1 = <<CollectionZMBE, PointBadBody>>
    /\ eresult.col = <<(<<4>>), (<<2>>)>>

\* Row i is a validly encoded geometry: the header a writer emits for a kind
\* the engine knows, followed by a payload the engine reads.
ValidlyEncoded(i) ==
    /\ in1[i + 1].body
    /\ \E h \in WrittenAs(i) : h.code \in EngineCodes

\* C15: for a validly encoded geometry the header reports the base_type,
\* has_z, has_m and srid that the engine reports after a full parse (the
\* engine answers 0 for a geometry without an SRID), and geometry_type and
\* srid return them.
C15_HeaderAgreesWithEngine ==
    \A i \in ByteRows :
        ValidlyEncoded(i) =>
            LET geom == ReadWkb(in1[i + 1])
                header == HeaderOf(i)
            IN  /\ geom.ok /\ header.ok
                /\ header.val.base_type = geom.val.type
                /\ header.val.has_z = geom.val.has_z
                /\ header.val.has_m = geom.val.has_m
                /\ header.val.srid \in {<<geom.val.srid>>} \cup
                                       (IF geom.val.srid = 0 THEN {<<>>} ELSE {})
                /\ (ESucceeded /\ op = "geometry_type") =>
                      eresult.col[i + 1] = <<geom.val.type>>
                /\ (ESucceeded /\ op = "srid" /\ geom.val.srid # 0) =>
                      eresult.col[i + 1] = << <<geom.val.srid>> >>

C15_Witness ==
    /\ ESucceeded /\ op = "srid"
    /\ in1 = <<CollectionZMBE, PolygonMLE>>
    /\ ValidlyEncoded(0) /\ ValidlyEncoded(1)
    /\ ReadWkb(CollectionZMBE).val = [type |-> 7, has_z |-> TRUE, has_m |-> TRUE, srid |-> 3857]
    /\ ReadWkb(PolygonMLE).val = [type |-> 3, has_z |-> FALSE, has_m |-> TRUE, srid |-> 0]
    /\ eresult.col = << <<(<<3857>>)>>, <<(<<0>>)>> >>

-----------------------------------------------------------------------------
(* Properties of coordinates.  While the rows are evaluated and after the   *)
(* last one, out is the column functions::get_coordinates has built: row i  *)
(* is <<>> for a null and <<tuples>> for a geometry.                        *)

\* functions::get_coordinates returned a column (whatever the cast did next).
FnReturned == op = "coordinates" /\ epc = "done" /\ eresult.msg.text \in {"", "strict_cast"}

\* The geometry rows flattened so far.
FlatRows ==
    IF op = "coordinates" THEN {i \in 0..(Len(out) - 1) : in1[i + 1].kind = "geom"} ELSE {}

\* The tuples of row i.
TuplesAt(i) == out[i + 1][1]

RECURSIVE NativeCoords(_), NativeOfParts(_, _)
\* Every coordinate of the tree with the sequence it belongs to, depth first,
\* parts in index order.
NativeCoords(geom) ==
    [k \in 1..Len(geom.seq) |-> [of |-> geom, co |-> geom.seq[k]]]
        \o NativeOfParts(geom.parts, 1)

NativeOfParts(parts, k) ==
    IF k > Len(parts) THEN <<>>
    ELSE NativeCoords(parts[k]) \o NativeOfParts(parts, k + 1)

\* The total coordinate count of a geometry.
NumCoords(geom) == Len(NativeCoords(geom))

RECURSIVE SubGeoms(_)
\* The geometry and everything nested in it.
SubGeoms(geom) ==
    {geom} \cup UNION {SubGeoms(geom.parts[k]) : k \in 1..Len(geom.parts)}

\* The tuples flatten_coordinates gives for one geometry on its own.
FlatTuples(geom) ==
    ReshapeArray(get_coords_sequence(geom, output_dimension, <<>>), output_dimension).val

RECURSIVE ConcatTuples(_, _)
\* The tuples of the geometries of a sequence, one after the other.
ConcatTuples(geoms, k) ==
    IF k > Len(geoms) THEN <<>>
    ELSE FlatTuples(geoms[k]) \o ConcatTuples(geoms, k + 1)

\* C16: coordinates of an empty geometry of any kind is a success with no
\* tuple, at every stride, and an empty geometry nested in a tree adds no
\* tuple: the count of a row is that of the coordinates of its tree.
C16_EmptyGivesNothing ==
    /\ \A i \in FlatRows :
          /\ NumCoords(in1[i + 1]) = 0 => out[i + 1] = <<(<<>>)>>
          /\ Len(TuplesAt(i)) = NumCoords(in1[i + 1])
          /\ \A g \in SubGeoms(in1[i + 1]) :
                NumCoords(g) = 0 => get_coords_sequence(g, output_dimension, <<>>) = <<>>
    /\ (op = "coordinates" /\ epc = "done" /\ \A k \in 1..Len(in1) : in1[k].kind # "bad")
          => (FnReturned /\ Len(out) = Len(in1))

C16_Witness ==
    /\ FnReturned /\ output_dimension = 4
    /\ in1 = <<CCollectionOfEmpty, CNested>>
    /\ out[1] = <<(<<>>)>>
    /\ Len(TuplesAt(1)) = 12

\* C17: the tuples of a non-empty Polygon or CurvePolygon are those of the
\* exterior ring, then those of interior ring 0, 1, ..., N-1; a polygon with
\* an exterior ring of 5 and two interior rings of 4 gives 13 tuples at
\* stride 2, exterior first, then the interior rings in index order.
C17_PolygonRingOrder ==
    /\ \A i \in FlatRows : \A g \in SubGeoms(in1[i + 1]) :
          (g.type \in PolygonTypes /\ NumCoords(g) > 0) =>
              FlatTuples(g) = ConcatTuples(g.parts, 1)
    /\ \A i \in FlatRows :
          (in1[i + 1].type \in PolygonTypes /\ NumCoords(in1[i + 1]) > 0) =>
              TuplesAt(i) = ConcatTuples(in1[i + 1].parts, 1)
    /\ \A i \in FlatRows :
          (in1[i + 1] = CPolygon /\ output_dimension = 2) =>
              TuplesAt(i) = << <<21, 121>>, <<22, 122>>, <<23, 123>>, <<24, 124>>, <<25, 125>>,
                               <<31, 131>>, <<32, 132>>, <<33, 133>>, <<34, 134>>,
                               <<41, 141>>, <<42, 142>>, <<43, 143>>, <<44, 144>> >>

C17_Witness ==
    /\ FnReturned /\ output_dimension = 2
    /\ in1 = <<CPolygon, CCurvePolygon>>
    /\ Len(TuplesAt(0)) = 13
    /\ TuplesAt(0)[6] = <<31, 131>> /\ TuplesAt(0)[10] = <<41, 141>>
    /\ TuplesAt(1) = << <<51, 151>>, <<52, 152>>, <<53, 153>>,
                        <<61, 161>>, <<62, 162>>, <<63, 163>> >>

\* C18: the tuples of a multi-part or collection geometry, at any depth of
\* nesting, are those of its components 0..N-1 one after the other, so their
\* count is the number of coordinates of the leaf sequences of the tree.
C18_CollectionConcatenation ==
    \A i \in FlatRows :
        /\ \A g \in SubGeoms(in1[i + 1]) :
              g.type \in CollectionKinds =>
                  /\ FlatTuples(g) = ConcatTuples(g.parts, 1)
                  /\ Len(FlatTuples(g)) = NumCoords(g)
        /\ in1[i + 1].type \in CollectionKinds =>
              /\ TuplesAt(i) = ConcatTuples(in1[i + 1].parts, 1)
              /\ Len(TuplesAt(i)) = NumCoords(in1[i + 1])

C18_Witness ==
    /\ FnReturned /\ output_dimension = 2
    /\ in1 = <<CNested, CMultiPoint>>
    /\ TuplesAt(0) = << <<6, 7>>, <<9, 10>>, <<3, 4>>,
                        <<71, 171>>, <<72, 172>>, <<73, 173>>, <<74, 174>>,
                        <<81, 181>>, <<82, 182>>, <<83, 183>>, <<84, 184>>,
                        <<1, 2>> >>
    /\ TuplesAt(1) = << <<3, 4>>, <<1, 2>> >>

\* C19: for every requested stride s in {2, 3, 4} the coordinates operation
\* returns, for each geometry, as many tuples as the geometry has
\* coordinates, each of exactly s ordinates.
C19_StrideTuples ==
    (op = "coordinates" /\ epc = "done" /\ \A k \in 1..Len(in1) : in1[k].kind # "bad") =>
        /\ eresult.tag = "ok"
        /\ Len(eresult.col) = Len(in1)
        /\ \A i \in 0..(Len(in1) - 1) :
              in1[i + 1].kind = "geom" =>
                  /\ Len(eresult.col[i + 1][1]) = NumCoords(in1[i + 1])
                  /\ \A k \in 1..Len(eresult.col[i + 1][1]) :
                        Len(eresult.col[i + 1][1][k]) = output_dimension

\* The ordinates a sequence holds for one coordinate.
NativeOrdinates(n) ==
    <<n.co.x, n.co.y>> \o (IF n.of.has_z THEN <<n.co.z>> ELSE <<>>)
                       \o (IF n.of.has_m THEN <<n.co.m>> ELSE <<>>)

\* C20: a stride above the dimensionality of a geometry (3 or 4 on XY, 4 on
\* XYZ or XYM) is a success in which every missing ordinate of every tuple is
\* NaN and the ordinates the geometry has are unchanged; with a stride below
\* it the ordinates beyond the stride are dropped.
C20_PadOrTruncate ==
    \A i \in FlatRows :
        LET native == NativeCoords(in1[i + 1])
        IN  /\ Len(TuplesAt(i)) = Len(native)
            /\ \A k \in 1..Len(native) :
                  LET t == TuplesAt(i)[k]
                      n == native[k]
                      dims == Len(NativeOrdinates(n))
                  IN  /\ Len(t) = output_dimension
                      /\ output_dimension > dims =>
                            /\ t[1] = n.co.x /\ t[2] = n.co.y
                            /\ t[3] = IF n.of.has_z THEN n.co.z ELSE NaN
                            /\ output_dimension = 4 =>
                                  t[4] = IF n.of.has_m THEN n.co.m ELSE NaN
                      /\ output_dimension < dims =>
                            t = SubSeq(NativeOrdinates(n), 1, output_dimension)

C20_Witness ==
    /\ FnReturned /\ output_dimension = 4
    /\ in1 = <<CPointZ, CLineM>>
    /\ TuplesAt(0) = << <<3, 4, 5, NaN>> >>
    /\ TuplesAt(1) = << <<6, 7, NaN, 8>>, <<9, 10, NaN, 11>> >>

-----------------------------------------------------------------------------
(* Properties of the structural accessors and of get_center.                *)

\* Rows of the output of an accessor, counted from 0.
PartRowsOut == 0..(OutLen(Helper(op), Lens) - 1)

\* The accessor is asked, at row i, for a part the geometry of the row does
\* not have: the exterior ring or an interior ring of a geometry that is not
\* a Polygon, a point of a geometry without a sequence of points, or a part
\* at an index past the last one.
LacksPart(i) ==
    LET g == At(in1, i)
        n == At(in2, i)
    IN  /\ g.kind = "geom"
        /\ CASE op = "exterior_ring" -> g.type # "Polygon"
             [] op = "get_point" ->
                  n.kind = "val" /\ (g.type \notin CurveTypes \/ n.v >= Len(g.seq))
             [] op = "get_interior_ring" ->
                  n.kind = "val" /\ (g.type # "Polygon" \/ n.v >= Len(g.parts) - 1)
             [] op = "get_geometry" ->
                  n.kind = "val" /\ n.v >= (IF g.type \in CollectionKinds
                                            THEN Len(g.parts) ELSE 1)
             [] OTHER -> FALSE

\* No geometry row of the accessor's input is malformed.
NoMalformedRow == \A k \in 1..Len(in1) : in1[k].kind # "bad"

\* C21: an accessor asked for a part that the geometry of a row does not have
\* (the input being otherwise well-formed and of compatible lengths) returns
\* its column, never an error, with a null in that row.
C21_MissingPartIsNull ==
    (/\ EDone
     /\ op \in AccessorOps
     /\ ShapeOk(Helper(op), Lens)
     /\ NoMalformedRow)
    => /\ eresult.tag = "ok"
       /\ \A i \in PartRowsOut : LacksPart(i) => eresult.col[i + 1] = <<>>

\* The point get_center is to return for a geometry.
CenterOf(g) ==
    IF is_empty(g) THEN CreateEmptyPoint
    ELSE CreatePoint(Midpoint(GetXMin(g), GetXMax(g)), Midpoint(GetYMin(g), GetYMax(g)))

\* C30: center returns for every non-empty geometry the point at the midpoint
\* of xmin and xmax and of ymin and ymax of its bounding box, and an empty
\* point for an empty geometry.
C30_CenterIsBoxMidpoint ==
    (op = "center" /\ ESucceeded)
    => \A k \in 1..Len(in1) :
          in1[k].kind = "geom" => eresult.col[k] = <<CenterOf(in1[k])>>

-----------------------------------------------------------------------------
(* Properties of to_srid and of its projection cache.                       *)

\* The SRID resolves: it fits the key of the cache and the registry knows it.
Resolvable(srid) == FitsU16(srid) /\ srid \in KnownEpsg

\* Row i is returned as it is: its SRID is the destination or it is empty.
SameOrEmpty(i) == At(in1, i).srid = At(in2, i).v \/ At(in1, i).empty

\* The closure ran to_srid's resolution on row i: the row is a geometry that
\* is not returned as it is.
Resolves(i) == At(in1, i).kind = "geom" /\ ~SameOrEmpty(i)

\* The SRID of row i that fails to resolve, the source being resolved first.
FailedSrid(i) ==
    IF ~Resolvable(At(in1, i).srid) THEN At(in1, i).srid ELSE At(in2, i).v

\* Row i has a source or a destination SRID that does not resolve.
Unresolvable(i) ==
    Resolves(i) /\ (~Resolvable(At(in1, i).srid) \/ ~Resolvable(At(in2, i).v))

\* C22: to_srid aborts the whole column with an unknown-SRID error when the
\* source or the destination SRID of a row it has to transform does not
\* resolve, and the error names the SRID that failed to resolve.
C22_UnknownSridNamed ==
    (op = "to_srid" /\ EDone /\ eresult.tag # "shape")
    => /\ eresult.tag = "ok" => \A i \in 0..(Len(eresult.col) - 1) :
                                    eresult.col[i + 1] # <<>> => ~Unresolvable(i)
       /\ (eresult.tag = "err" /\ At(in1, row).kind = "geom")
          => /\ Unresolvable(row)
             /\ eresult.col = <<>>
             /\ eresult.msg = [text |-> "Unknown SRID", srid |-> FailedSrid(row)]

\* The SRIDs the closure resolved successfully on row i.
ResolvedBy(i) ==
    IF ~Resolves(i) \/ ~Resolvable(At(in1, i).srid) THEN {}
    ELSE {At(in1, i).srid} \cup {s \in {At(in2, i).v} : Resolvable(s)}

\* The rows the closure has run on.
Called == {calls[k] : k \in 1..Len(calls)}

\* C24: a to_srid invocation starts with an empty cache; every SRID in the
\* cache was resolved from the registry once, however many rows use it; an
\* SRID that does not resolve is not in it; and after any sequence of rows
\* it holds exactly the SRIDs resolved successfully so far.
C24_CacheExact ==
    op = "to_srid"
    => /\ epc = "start" => cache = {}
       /\ {e.srid : e \in cache} = UNION {ResolvedBy(i) : i \in Called}
       /\ \A e \in cache : e = CacheEntry(e.srid, 1) /\ Resolvable(e.srid)
       /\ \A e, f \in cache : e.srid = f.srid => e = f

\* Two rows use the same two SRIDs: each is in the cache, resolved once.
C24_Witness ==
    /\ op = "to_srid" /\ EDone /\ eresult.tag = "ok"
    /\ in1 = <<Pt4326, Pt4326>>
    /\ in2 = <<SVal(3857)>>
    /\ calls = <<0, 1>>
    /\ {e.srid : e \in cache} = {4326, 3857}

\* C27: to_srid returns a row as it was given, resolving nothing, if and only
\* if the SRID of the geometry is the destination or the geometry is empty;
\* every other row it returns carries the destination SRID.
C27_UnchangedIffSameOrEmpty ==
    (op = "to_srid" /\ epc \in {"rows", "done"})
    => /\ \A i \in 0..(Len(out) - 1) :
             out[i + 1] # <<>>
             => /\ out[i + 1] = <<At(in1, i)>> <=> SameOrEmpty(i)
                /\ ~SameOrEmpty(i) => out[i + 1][1].srid = At(in2, i).v
       /\ (\A i \in Called : At(in1, i).kind = "geom" => SameOrEmpty(i)) => cache = {}

\* An empty geometry with another SRID is returned as it is, a geometry that
\* is not empty is transformed and carries the destination SRID.
C27_Witness ==
    /\ op = "to_srid" /\ EDone /\ eresult.tag = "ok"
    /\ in1 = <<EmptyPt, Pt3857>>
    /\ in2 = <<SVal(4326)>>
    /\ eresult.col[1] = <<EmptyPt>>
    /\ eresult.col[2][1].srid = 4326
    /\ eresult.col[2] # <<Pt3857>>

-----------------------------------------------------------------------------
(* Properties of the prepared geometries of sjoin.                          *)

\* The left rows that are not null.
NonNullLeft == {i \in 1..Len(left) : left[i].kind # "null"}

\* The probe phase has started: a right row was probed or a pair was found.
ProbeStarted == right_index > 0 \/ left_index_builder # <<>> \/ pc = "probe"

\* C25, the state of a join: nothing is prepared before the left column is
\* parsed and indexed; once the probe phase has started, to_prepared_geom has
\* been called once for each left row that is not null, whatever the right
\* column holds, and the prepared rows are those of the left column, row by
\* row.
PreparedBeforeProbe ==
    /\ pc \in {"parse_left", "index", "prepare"} => (prepare_calls = 0 /\ ~ProbeStarted)
    /\ ProbeStarted => /\ prepare_calls = Cardinality(NonNullLeft)
                       /\ Len(prepared_geoms) = Len(left)
                       /\ \A i \in NonNullLeft : prepared_geoms[i] = left[i]
    /\ prepare_calls \in {0, Cardinality(NonNullLeft)}

\* C25, the steps of a join: a step of the probe phase prepares nothing and
\* leaves the prepared rows as they are.
ProbeKeepsPrepared ==
    pc = "probe" => (prepare_calls' = prepare_calls /\ prepared_geoms' = prepared_geoms)

\* C25: in one join the prepared form of each left row that is not null is
\* built exactly once, before the probe phase, and is the one used for every
\* candidate test; the number of prepare operations is the number of left
\* rows that are not null and does not grow with the right rows or the
\* candidate pairs.
C25_PreparedOnce == []PreparedBeforeProbe /\ [][ProbeKeepsPrepared]_vars

\* One left row that is not null and one that is, tested against two right
\* rows: two pairs with the one prepared geometry.
C25_Witness ==
    /\ pc = "done" /\ result.tag = "ok"
    /\ left = <<PointA, NullRow>>
    /\ right = <<BoxC, PointA>>
    /\ predicate = "Intersects"
    /\ result.left_index = <<0, 0>> /\ result.right_index = <<0, 1>>
    /\ prepare_calls = 1

-----------------------------------------------------------------------------
(* Properties of the sjoin expression.                                      *)

\* C26: the sjoin expression succeeds whatever the number of matches (the
\* join itself not having failed) and returns a struct column with one row
\* per pair found, both fields of that length; its row count is the match
\* count, whatever the length of the left column.
C26_StructRowPerPair ==
    (pc = "done" /\ result.tag # "err")
    => /\ result.tag = "ok"
       /\ result.left_index = left_index_builder
       /\ result.right_index = right_index_builder
       /\ Len(result.left_index) = Len(result.right_index)

-----------------------------------------------------------------------------
(* Properties of the aggregations.                                          *)

\* The rows of the column that are not null.
NonNullRows == {k \in 1..Len(in1) : in1[k].kind # "null"}

\* A row that is not null does not parse.
SomeRowMalformed == \E k \in NonNullRows : in1[k].kind # "geom"

\* C23: union_all, intersection_all, difference_all and
\* symmetric_difference_all end with an error when a row that is not null is
\* malformed: a row that does not parse is not left out of the reduction.
C23_MalformedAbortsReduction ==
    (op \in ReduceOps /\ EDone /\ SomeRowMalformed) => eresult.tag = "err"

\* The collection collect is to build: MultiPoint, MultiLineString or
\* MultiPolygon when the rows that are not null are all Point, all
\* LineString or all Polygon, GeometryCollection otherwise.
KindToCollect ==
    LET types == {in1[k].type : k \in NonNullRows}
    IN  CASE types = {WkbPoint} -> WkbMultiPoint
          [] types = {WkbLineString} -> WkbMultiLineString
          [] types = {WkbPolygon} -> WkbMultiPolygon
          [] OTHER -> WkbGeometryCollection

\* C28: collect returns a MultiPoint, MultiLineString or MultiPolygon when
\* every row that is not null is a Point, a LineString or a Polygon, and a
\* GeometryCollection otherwise; the null rows are left out and do not
\* change the kind.
C28_CollectKind ==
    (op = "collect" /\ EDone /\ ~SomeRowMalformed)
    => /\ eresult.tag = "ok"
       /\ eresult.col[1][1].type = KindToCollect
       /\ eresult.col[1][1].parts = SelectSeq(in1, LAMBDA g : g.kind # "null")

-----------------------------------------------------------------------------
(* Properties of from_xy.                                                   *)

\* C29: from_xy on a struct whose third field is not of Null type builds,
\* for every row with x, y and z values, the 3D point (x, y, z) whose z is
\* the value of the struct's third field at that row; on a struct whose third
\* field is of Null type it builds the 2D point (x, y).
C29_PointFromFields ==
    (op = "from_xy" /\ ESucceeded)
    => \A i \in 1..Len(in1.rows) :
          IF in3.dtype # "Null"
          THEN (in1.rows[i].kind = "val" /\ in2.rows[i].kind = "val" /\ in3.rows[i].kind = "val")
               => eresult.col[i] = <<CreatePointZ(in1.rows[i].v, in2.rows[i].v, in3.rows[i].v)>>
          ELSE (in1.rows[i].kind = "val" /\ in2.rows[i].kind = "val")
               => eresult.col[i] = <<CreatePoint(in1.rows[i].v, in2.rows[i].v)>>

=============================================================================
